---- MODULE Spec2Model ----
(***************************************************************************)
(* Force-plate (centre-of-pressure) batch pipeline of                      *)
(* shared/force_preprocessing/COP_functions.py: ForcePlateProcessor.       *)
(*                                                                         *)
(* Text is modelled as sequences of one-character strings, so that the     *)
(* tokenizer, str.strip, the regular expressions, int() and float() run    *)
(* character by character as the library routines do.                      *)
(***************************************************************************)
EXTENDS Integers, Sequences, FiniteSets, TLC

(***************************************************************************)
(* Characters                                                              *)
(***************************************************************************)
Digits == <<"0", "1", "2", "3", "4", "5", "6", "7", "8", "9">>
UpperCase == <<"A","B","C","D","E","F","G","H","I","J","K","L","M",
               "N","O","P","Q","R","S","T","U","V","W","X","Y","Z">>
LowerCase == <<"a","b","c","d","e","f","g","h","i","j","k","l","m",
               "n","o","p","q","r","s","t","u","v","w","x","y","z">>

IsDigit(c) == \E i \in DOMAIN Digits : Digits[i] = c
DigitVal(c) == (CHOOSE i \in DOMAIN Digits : Digits[i] = c) - 1
IsSpace(c) == c \in {" ", "\t", "\n", "\r"}
lower_char(c) ==
    IF \E i \in DOMAIN UpperCase : UpperCase[i] = c
    THEN LowerCase[CHOOSE i \in DOMAIN UpperCase : UpperCase[i] = c]
    ELSE c
lower(s) == [i \in DOMAIN s |-> lower_char(s[i])]

Drop(s, n) == SubSeq(s, n + 1, Len(s))
Take(s, n) == SubSeq(s, 1, n)

RECURSIVE Pow10(_)
Pow10(n) == IF n <= 0 THEN 1 ELSE 10 * Pow10(n - 1)

(***************************************************************************)
(* str.strip() and str.split(',')                                          *)
(***************************************************************************)
RECURSIVE lstrip(_)
lstrip(s) == IF s # <<>> /\ IsSpace(Head(s)) THEN lstrip(Tail(s)) ELSE s
RECURSIVE rstrip(_)
rstrip(s) == IF s # <<>> /\ IsSpace(s[Len(s)]) THEN rstrip(Take(s, Len(s) - 1)) ELSE s
strip(s) == rstrip(lstrip(s))

\* str.split(','): always at least one piece (''.split(',') is ['']).
RECURSIVE split_comma(_, _)
split_comma(s, acc) ==
    IF s = <<>> THEN <<acc>>
    ELSE IF Head(s) = "," THEN <<acc>> \o split_comma(Tail(s), <<>>)
    ELSE split_comma(Tail(s), Append(acc, Head(s)))

\* row = [cell.strip() for cell in line.strip().split(',')]
tokenize_line(line) ==
    LET cells == split_comma(strip(line), <<>>)
    IN  [i \in DOMAIN cells |-> strip(cells[i])]

(***************************************************************************)
(* re.search(r'(\d+)', s) and int()                                        *)
(***************************************************************************)
RECURSIVE take_digits(_)
take_digits(s) ==
    IF s # <<>> /\ IsDigit(Head(s)) THEN <<Head(s)>> \o take_digits(Tail(s)) ELSE <<>>

\* Mutant: every digit of the string, whatever lies between them
search_digits_all(s) == SelectSeq(s, IsDigit)
\* The first maximal run of digits; <<>> stands for None (a match is never empty).
RECURSIVE search_digits(_)
search_digits(s) ==
    IF s = <<>> THEN <<>>
    ELSE IF IsDigit(Head(s)) THEN take_digits(s)
    ELSE search_digits(Tail(s))

RECURSIVE int_of_digits(_)
int_of_digits(s) ==
    IF s = <<>> THEN 0 ELSE 10 * int_of_digits(Take(s, Len(s) - 1)) + DigitVal(s[Len(s)])

(***************************************************************************)
(* Subject id and trial name patterns                                      *)
(***************************************************************************)
\* exgm\d{3} matched at position i of s
exgm_at(s, i) ==
    /\ i >= 1
    /\ i + 6 <= Len(s)
    /\ SubSeq(s, i, i + 3) = <<"e", "x", "g", "m">>
    /\ \A j \in (i + 4)..(i + 6) : IsDigit(s[j])

\* '$' matches at the end of the string and just before a final newline.
at_dollar(s, i) == i = Len(s) + 1 \/ (i = Len(s) /\ s[i] = "\n")

\* Mutant: the pattern without its '$'
validate_subject_id_prefix(subject_id) == exgm_at(subject_id, 1)
\* bool(re.match(r'^exgm\d{3}$', subject_id))
validate_subject_id(subject_id) == exgm_at(subject_id, 1) /\ at_dollar(subject_id, 8)

\* re.search(r'exgm\d{3}', name): the leftmost match, <<>> for None.
filename_match(name) ==
    IF \E i \in 1..Len(name) : exgm_at(name, i)
    THEN LET i == CHOOSE i \in 1..Len(name) :
                      exgm_at(name, i) /\ \A j \in 1..(i - 1) : ~exgm_at(name, j)
         IN  SubSeq(name, i, i + 6)
    ELSE <<>>

RECURSIVE count_spaces(_)
count_spaces(s) == IF s # <<>> /\ IsSpace(Head(s)) THEN 1 + count_spaces(Tail(s)) ELSE 0

\* bool(re.match(r'^(Shoulder|Tandem)\s+[12]-[123]$', trial_name, re.IGNORECASE))
validate_trial_name(trial_name) ==
    \E word \in {<<"s","h","o","u","l","d","e","r">>, <<"t","a","n","d","e","m">>} :
        /\ Len(trial_name) >= Len(word)
        /\ lower(Take(trial_name, Len(word))) = word
        /\ LET rest == Drop(trial_name, Len(word))
               n == count_spaces(rest)
               tail == Drop(rest, n)
           IN  /\ n >= 1
               /\ Len(tail) >= 3
               /\ tail[1] \in {"1", "2"}
               /\ tail[2] = "-"
               /\ tail[3] \in {"1", "2", "3"}
               /\ at_dollar(tail, 4)

(***************************************************************************)
(* float(): a value is <<"num", v>> with v in thousandths, <<"nan">>,      *)
(* <<"inf", sign>>, or <<"ValueError">> when float() raises.  Literals with*)
(* more than three fractional digits after scaling are truncated, and no   *)
(* input of the model has any.                                             *)
(***************************************************************************)
Scale == Pow10(3)
NaN == <<"nan">>
ValueError == <<"ValueError">>
Num(v) == <<"num", v>>
IsNum(x) == x[1] = "num"

\* Underscores are legal only between two digits, and are then ignored.
underscores_ok(s) ==
    \A i \in DOMAIN s :
        s[i] = "_" => /\ i > 1 /\ i < Len(s) /\ IsDigit(s[i - 1]) /\ IsDigit(s[i + 1])
RECURSIVE drop_underscores(_)
drop_underscores(s) ==
    IF s = <<>> THEN <<>>
    ELSE IF Head(s) = "_" THEN drop_underscores(Tail(s))
    ELSE <<Head(s)>> \o drop_underscores(Tail(s))

has_sign(s) == s # <<>> /\ Head(s) \in {"+", "-"}
sign_of(s) == IF s # <<>> /\ Head(s) = "-" THEN -1 ELSE 1
unsigned(s) == IF has_sign(s) THEN Tail(s) ELSE s

\* digits* [. digits*] [(e|E) [sign] digits+], at least one mantissa digit: one
\* pass over the characters.  n is the mantissa without its point, nd the number
\* of its digits, nfrac those after the point, e the exponent, ed its digits.
FloatStart == [phase |-> "int", n |-> 0, nd |-> 0, nfrac |-> 0, e |-> 0, ed |-> 0, esgn |-> 1]

float_step(st, c) ==
    IF st.phase = "int" /\ IsDigit(c)
    THEN [st EXCEPT !.n = 10 * @ + DigitVal(c), !.nd = @ + 1]
    ELSE IF st.phase = "int" /\ c = "."
    THEN [st EXCEPT !.phase = "frac"]
    ELSE IF st.phase = "frac" /\ IsDigit(c)
    THEN [st EXCEPT !.n = 10 * @ + DigitVal(c), !.nd = @ + 1, !.nfrac = @ + 1]
    ELSE IF st.phase \in {"int", "frac"} /\ c \in {"e", "E"}
    THEN [st EXCEPT !.phase = "esign"]
    ELSE IF st.phase = "esign" /\ c \in {"+", "-"}
    THEN [st EXCEPT !.phase = "exp", !.esgn = IF c = "-" THEN -1 ELSE 1]
    ELSE IF st.phase \in {"esign", "exp"} /\ IsDigit(c)
    THEN [st EXCEPT !.phase = "exp", !.e = 10 * @ + DigitVal(c), !.ed = @ + 1]
    ELSE [st EXCEPT !.phase = "bad"]

RECURSIVE float_scan(_, _)
float_scan(s, st) == IF s = <<>> THEN st ELSE float_scan(Tail(s), float_step(st, Head(s)))

float_value(sgn, st, shift) ==
    IF st.nd = 0 \/ ~(st.phase \in {"int", "frac"} \/ (st.phase = "exp" /\ st.ed > 0))
    THEN ValueError
    ELSE IF shift >= 0 THEN Num(sgn * st.n * Pow10(shift))
    ELSE Num(sgn * (st.n \div Pow10(0 - shift)))

float_result(sgn, st) == float_value(sgn, st, 3 - st.nfrac + st.esgn * st.e)
float_decimal(sgn, t) == float_result(sgn, float_scan(t, FloatStart))

float_word(sgn, t) ==
    IF t \in {<<"i","n","f">>, <<"i","n","f","i","n","i","t","y">>} THEN <<"inf", sgn>>
    ELSE IF t = <<"n","a","n">> THEN NaN
    ELSE IF ~underscores_ok(t) THEN ValueError
    ELSE float_decimal(sgn, drop_underscores(t))

float_stripped(s) == float_word(sign_of(s), lower(unsigned(s)))
py_float(cell) == float_stripped(strip(cell))

\* Mutant: time_data > start_time
float_gt(x, lo) == IF IsNum(x) THEN x[2] > lo * Scale ELSE x[1] = "inf" /\ x[2] = 1
\* x >= lo and x <= hi as numpy compares floats: every comparison with NaN is False.
float_ge(x, lo) == IF IsNum(x) THEN x[2] >= lo * Scale ELSE x[1] = "inf" /\ x[2] = 1
float_le(x, hi) == IF IsNum(x) THEN x[2] <= hi * Scale ELSE x[1] = "inf" /\ x[2] = -1

(***************************************************************************)
(* ForcePlateProcessor.__init__: the fixed parameters                      *)
(***************************************************************************)
expected_sampling_rate == 1500
filter_cutoff == 5
filter_order == 4
start_time == 10
end_time == 30

(***************************************************************************)
(* Bounds of the model                                                     *)
(***************************************************************************)
MaxBaseline == 5        \* entries listed in the baseline directory
MaxIntervention == 1    \* entries listed in the intervention directory
MaxRuns == 2            \* calls of process_all_files on one processor
MaxWindow == 17         \* samples of the longest run of in-window data rows

(***************************************************************************)
(* Input files.  A file is a small descriptor; file_name and file_lines    *)
(* give what the program sees of it: its name and its lines of text.       *)
(*   name, sr, subj, trial : indexes into the tables below                 *)
(*   kind  : "text", "denied" (open() raises), "binary" (decoding raises)  *)
(*   keep  : the number of leading lines the file holds (it is cut there)  *)
(*   mlen  : number of cells of the metadata line                          *)
(*   block : index of the data block                                       *)
(***************************************************************************)
Names == <<
    <<"e","x","g","m","0","4","7","_","s","h","o","u","l","d","e","r","1","-","2",".","c","s","v">>,
    <<"a",".","c","s","v">>,
    <<"b",".","c","s","v">>,
    <<"c",".","c","s","v">>,
    <<"t","r","i","a","l",".","c","s","v">>,
    <<"e","x","g","m","0","1","_","e","x","g","m","1","2","3","x",".","c","s","v">>,
    <<"n","o","t","e","s",".","t","x","t">> >>

SrCells == <<
    <<"1","5","0","0">>,
    <<"1","5","0","0"," ","H","z">>,
    <<>>,
    <<"a","b","c">>,
    <<"0">>,
    <<"1","0">>,
    <<"1","1">>,
    <<"1","0","0","0","H","z">>,
    <<"v","2",":"," ","2","5","0"," ","H","z">> >>

SubjCells == <<
    <<"e","x","g","m","0","1","0">>,
    <<>>,
    <<"E","X","G","M","0","1","0">>,
    <<"e","x","g","m","0","1","0","0">>,
    <<"i","d"," ","e","x","g","m","0","1","1">>,
    <<"e","x","g","m","0","2","0">> >>

TrialCells == <<
    <<"S","h","o","u","l","d","e","r"," ","1","-","2">>,
    <<"t","a","n","d","e","m"," ","2","-","3">>,
    <<>>,
    <<"W","a","l","k"," ","1","-","1">> >>

RECURSIVE str_of_nat(_)
str_of_nat(n) ==
    IF n < 10 THEN <<Digits[n + 1]>> ELSE Append(str_of_nat(n \div 10), Digits[(n % 10) + 1])

RECURSIVE join_comma(_)
join_comma(cells) ==
    IF Len(cells) = 0 THEN <<>>
    ELSE IF Len(cells) = 1 THEN cells[1]
    ELSE cells[1] \o <<",">> \o join_comma(Tail(cells))

\* A line of n cells; ix (0-based cell index -> text) gives the cells that are not empty.
line_of(n, ix) ==
    join_comma([i \in 1..n |-> IF (i - 1) \in DOMAIN ix THEN ix[i - 1] ELSE <<>>]) \o <<"\n">>

meta_line(f) ==
    line_of(f.mlen, (2 :> SrCells[f.sr]) @@ (7 :> SubjCells[f.subj]) @@ (12 :> TrialCells[f.trial]))

data_line(n, t, ml, ap) == line_of(n, (0 :> t) @@ (26 :> ml) @@ (27 :> ap))

Half == <<"0",".","5">>
NegQuarter == <<"-","0",".","2","5">>
good_line(t) == data_line(28, t, Half, NegQuarter)

\* n samples at 10 s, 11 s, ..., all of them inside the window
in_window(n) == [i \in 1..n |-> good_line(str_of_nat(start_time + i - 1))]

Blocks == <<
    \* 1: no data rows
    <<>>,
    \* 2: nothing parseable: a short row, a row of text, a blank line
    << data_line(27, <<"1","2">>, Half, Half),
       data_line(28, <<"a","b","c">>, Half, Half),
       data_line(29, <<"1","2">>, <<"1",".","5","m","m">>, Half),
       <<"\n">> >>,
    \* 3: a valid recording: samples before, inside and after the window
    << good_line(<<"0">>) >> \o in_window(3 * (filter_order + 1) + 1) \o << good_line(<<"3","1">>) >>,
    \* 4: one sample too few for the filter's padding
    in_window(3 * (filter_order + 1)),
    \* 5: the edges of the window
    << good_line(<<"9",".","9","9","9">>), good_line(<<"1","0",".","0">>),
       good_line(<<"3","0">>), good_line(<<"3","0",".","0","0","1">>) >>,
    \* 6: empty cells among valid rows, a short row and one unparseable row
    << data_line(28, <<>>, Half, Half),
       data_line(27, <<"1","2">>, Half, Half),
       data_line(28, <<"1","2">>, <<>>, Half),
       data_line(28, <<"1","2">>, Half, <<"x">>),
       data_line(30, <<"1","e","1">>, Half, <<>>) >> \o in_window(MaxWindow),
    \* 7: samples outside the window only
    << good_line(<<"0">>), good_line(<<"5">>), good_line(<<"3","1">>) >> >>

HeaderLine == <<"T","r","i","a","l","\n">>
UnitsLine == <<"s",",","m","m","\n">>
ColumnsLine == <<"T","i","m","e","\n">>

file_name(f) == Names[f.name]
file_lines(f) ==
    LET full == <<HeaderLine, meta_line(f), UnitsLine, ColumnsLine>> \o Blocks[f.block]
    IN  IF f.keep < Len(full) THEN Take(full, f.keep) ELSE full

WholeFile == 4 + MaxWindow + 8
File(name, kind, keep, mlen, sr, subj, trial, block) ==
    [name |-> name, kind |-> kind, keep |-> keep, mlen |-> mlen,
     sr |-> sr, subj |-> subj, trial |-> trial, block |-> block]

\* The files a batch draws its two directories from, in listing order.
FExgm047 == File(1, "text", WholeFile, 13, 1, 2, 1, 3)    \* subject cell empty, id in the name
FA == File(2, "text", WholeFile, 13, 2, 1, 1, 3)          \* exgm010, "1500 Hz"
FB == File(3, "text", WholeFile, 13, 1, 1, 2, 3)          \* exgm010 again
FC == File(4, "text", WholeFile, 13, 1, 6, 2, 3)          \* exgm020
FCorrupt == File(5, "text", WholeFile, 13, 4, 1, 1, 2)    \* rate "abc", no parseable row
FZeroRate == File(6, "text", WholeFile, 13, 5, 3, 4, 3)   \* rate "0" with data in the window
FBinary == File(3, "binary", WholeFile, 13, 1, 1, 1, 3)   \* not UTF-8 text
FNotes == File(7, "text", 1, 1, 3, 2, 3, 1)               \* notes.txt
BatchFiles == <<FExgm047, FA, FB, FC, FCorrupt, FZeroRate, FNotes>>
InterventionFiles == <<FA, FBinary, FNotes>>

\* The files a single-file run draws from: every metadata cell and data block,
\* the short and the missing metadata rows, and the files that cannot be read.
ParseFiles ==
    {File(2, "text", WholeFile, 13, sr, 1, 1, b) : sr \in DOMAIN SrCells, b \in DOMAIN Blocks}
    \cup {File(n, "text", k, m, 1, s, 1, 7) :
              n \in {1, 2, 6}, k \in {0, 1, 2, 4, WholeFile},
              m \in {0, 2, 3, 7, 8, 12, 13}, s \in DOMAIN SubjCells}
    \cup {File(2, "text", WholeFile, m, 3, 1, t, 7) : m \in {12, 13, 14}, t \in DOMAIN TrialCells}
    \cup {File(2, "text", k, m, 8, 1, 1, 7) : k \in {1, 2, WholeFile}, m \in {0, 2, 3}}
    \cup {File(2, k, WholeFile, 13, 1, 1, 1, 3) : k \in {"denied", "binary"}}

\* The members of pool at the positions in S, in pool order.
RECURSIVE pick(_, _)
pick(pool, S) ==
    IF pool = <<>> THEN <<>>
    ELSE LET rest == pick(Take(pool, Len(pool) - 1), S)
         IN  IF Len(pool) \in S THEN Append(rest, pool[Len(pool)]) ELSE rest

Listings(pool, max) ==
    {pick(pool, S) : S \in {T \in SUBSET DOMAIN pool : Cardinality(T) <= max}}

Directory(exists, entries) == [exists |-> exists, entries |-> entries]
MissingDirectory == Directory(FALSE, <<>>)

(***************************************************************************)
(* State                                                                   *)
(***************************************************************************)
VARIABLES
    baseline_dir,       \* the directory self.baseline_dir names
    intervention_dir,   \* the directory self.intervention_dir names
    processed_data,     \* self.processed_data: a dict, as <<key, list>> pairs in insertion order
    pc,                 \* where the call of process_all_files stands
    all_files,          \* process_all_files: the (file, session) pairs discovered
    idx,                \* position of the for loop in all_files
    successful,         \* process_all_files: counter
    failed,             \* process_all_files: counter
    loc,                \* the local variables of process_csv_file
    exc,                \* the exception in flight, "none" when there is none
    raised_at,          \* the step that raised it
    open_files,         \* the files process_csv_file holds open
    warned,             \* warnings.warn calls so far, and the "No CSV files found" line printed
    errlog,             \* the "ERROR processing ..." lines: the file and the exception
    appended,           \* the appends to processed_data: the file, its key, its place
    runs,               \* calls of process_all_files so far
    attempted,          \* how often each discovered file entered the loop body in this call
    at_call,            \* processed_data as it was when this call began
    summary,            \* whether get_summary was called, and the rows its last call returned
    synthetic,          \* process_csv_file on the 25 s synthetic trial: rows read, window size
    fit,                \* assess_model_fit: the .mat file, what was loaded and extracted
    unwrap              \* append_additional_spectra: the struct array and the loop over it

\* What the other entry points of the repository work on
aux == <<summary, synthetic, fit, unwrap>>
vars == <<baseline_dir, intervention_dir, processed_data, pc, all_files, idx, successful,
          failed, loc, exc, raised_at, open_files, warned, errlog, appended, runs, attempted,
          at_call, aux>>

Sessions == {"baseline", "intervention"}
NoSynthetic == [scheme |-> "none", rows |-> 0, windowed |-> FALSE, trimmed |-> 0]
NoMat == [kind |-> "none", key |-> "none", group |-> FALSE, fields |-> <<>>]
None == [kind |-> "None", columns |-> {}, rows |-> 0]
Scalar == [array |-> FALSE, depth |-> 0, shape |-> <<>>]
NoUnwrap == [pc |-> "none", results |-> <<>>, i |-> 0, spectra_unwrapped |-> Scalar,
             unwrap_count |-> 0, new_data |-> <<>>]
NoFit == [pc |-> "none", file |-> NoMat, mat_data |-> NoMat, format_type |-> "None",
          df |-> None, exc |-> "none", handle_open |-> FALSE]
NoLocals == [sampling_rate |-> 0, subject_id |-> <<>>, trial_name |-> <<>>,
             time_data |-> <<>>, ml_data |-> <<>>, ap_data |-> <<>>,
             time_trimmed |-> <<>>, ml_trimmed |-> <<>>, ap_trimmed |-> <<>>,
             ml_filtered |-> <<>>, ap_filtered |-> <<>>,
             butter_calls |-> 0,     \* calls of apply_butterworth_filter made for the file
             filter_calls |-> <<>>]  \* and what each call worked with

InitProcessor ==
    /\ processed_data = <<>>
    /\ pc = "idle"
    /\ all_files = <<>>
    /\ idx = 0
    /\ successful = 0
    /\ failed = 0
    /\ loc = NoLocals
    /\ exc = "none"
    /\ raised_at = "none"
    /\ open_files = {}
    /\ warned = {}
    /\ errlog = <<>>
    /\ appended = <<>>
    /\ runs = 0
    /\ attempted = <<>>
    /\ at_call = <<>>
    /\ summary = [called |-> FALSE, rows |-> <<>>]
    /\ synthetic = NoSynthetic
    /\ fit = NoFit
    /\ unwrap = NoUnwrap

\* A batch: each directory is missing, or lists some of the batch's files.
Init ==
    /\ baseline_dir \in {MissingDirectory}
           \cup {Directory(TRUE, l) : l \in Listings(BatchFiles, MaxBaseline)}
    /\ intervention_dir \in {MissingDirectory}
           \cup {Directory(TRUE, l) : l \in Listings(InterventionFiles, MaxIntervention)}
    /\ InitProcessor

(***************************************************************************)
(* process_csv_file: the pure parts                                        *)
(***************************************************************************)
\* all_data: one row of stripped cells per line of the file
tokenize_all(lines) == [i \in DOMAIN lines |-> tokenize_line(lines[i])]
\* The rows of each data block, tokenized once.
BlockRows == [b \in DOMAIN Blocks |-> tokenize_all(Blocks[b]) \o <<>>] \o <<>>
all_data(f) ==
    LET full == tokenize_all(<<HeaderLine, meta_line(f), UnitsLine, ColumnsLine>>)
                    \o BlockRows[f.block]
    IN  IF f.keep < Len(full) THEN Take(full, f.keep) ELSE full

\* metadata_row = all_data[1] if len(all_data) > 1 else []
metadata_row(rows) == IF Len(rows) > 1 THEN rows[2] ELSE <<>>

\* Lines 149-160.  Nothing in the try block raises for the cells of the model.
parse_sampling_rate(meta) ==
    LET sampling_rate_str == IF Len(meta) > 2 THEN meta[3] ELSE <<>>
        sampling_rate_match == search_digits(sampling_rate_str)
    IN  IF sampling_rate_match # <<>> THEN int_of_digits(sampling_rate_match)
        ELSE expected_sampling_rate

\* Lines 167-172: the cell as read
read_subject_id(meta) == strip(IF Len(meta) > 7 THEN meta[8] ELSE <<>>)

\* Lines 174-180: the cell if valid, else the id found in the file name, else the cell
resolve_subject_id(meta, name) ==
    LET subject_id == read_subject_id(meta)
    IN  IF validate_subject_id(subject_id) THEN subject_id
        ELSE IF filename_match(name) # <<>> THEN filename_match(name)
        ELSE subject_id

\* Lines 183-188
read_trial_name(meta) == strip(IF Len(meta) > 12 THEN meta[13] ELSE <<>>)

\* Mutant: all_data[5:]
data_rows_from5(rows) == IF Len(rows) > 5 THEN Drop(rows, 5) ELSE <<>>
\* data_rows = all_data[4:] if len(all_data) > 4 else []
data_rows(rows) == IF Len(rows) > 4 THEN Drop(rows, 4) ELSE <<>>

IndexError == <<"IndexError">>
\* row[k], raising IndexError past the end of the row
subscript(row, k) == IF k < Len(row) THEN row[k + 1] ELSE IndexError

\* Mutant: float(row[k]), which raises ValueError for an empty cell
float_of_cell_strict(cell) ==
    IF cell = IndexError THEN IndexError
    ELSE IF cell # <<>> THEN py_float(cell)
    ELSE ValueError
\* float(row[k]) if row[k] else np.nan
float_of_cell(cell) ==
    IF cell = IndexError THEN IndexError
    ELSE IF cell # <<>> THEN py_float(cell)
    ELSE NaN
float_or_nan(row, k) == float_of_cell(subscript(row, k))

\* The three conversions in the order of lines 206-210: the first that raises ends
\* the try block, else the three values are appended (lines 212-214).
row_values(time_val, ml_val, ap_val) ==
    IF time_val \in {ValueError, IndexError} THEN <<"raise", time_val[1]>>
    ELSE IF ml_val \in {ValueError, IndexError} THEN <<"raise", ml_val[1]>>
    ELSE IF ap_val \in {ValueError, IndexError} THEN <<"raise", ap_val[1]>>
    ELSE <<"append", time_val, ml_val, ap_val>>

\* Lines 204-214: the body of the try block for one row.
\* <<"append", t, ml, ap>>, <<"pass">> for a short row, or <<"raise", type>>.
parse_row(row) ==
    IF Len(row) >= 28
    THEN row_values(float_or_nan(row, 0), float_or_nan(row, 26), float_or_nan(row, 27))
    ELSE <<"pass">>

\* Mutant: except IndexError
row_except_narrow(e) == e \in {"IndexError"}
\* Line 215: except (ValueError, IndexError)
row_except(e) == e \in {"ValueError", "IndexError"}

\* Mutant: an AP value that is NaN is left out of its array
add_row_skip_nan(acc, r) ==
    IF r[1] = "append"
    THEN [acc EXCEPT !.time_data = Append(@, r[2]),
                     !.ml_data = Append(@, r[3]),
                     !.ap_data = IF r[4] = NaN THEN @ ELSE Append(@, r[4])]
    ELSE IF r[1] = "raise" /\ ~row_except(r[2]) THEN [acc EXCEPT !.exc = r[2]]
    ELSE acc
\* One turn of the loop of lines 201-217
add_row(acc, r) ==
    IF r[1] = "append"
    THEN [acc EXCEPT !.time_data = Append(@, r[2]),
                     !.ml_data = Append(@, r[3]),
                     !.ap_data = Append(@, r[4])]
    ELSE IF r[1] = "raise" /\ ~row_except(r[2]) THEN [acc EXCEPT !.exc = r[2]]
    ELSE acc

\* Lines 197-217: the loop over the data rows, stopping at an exception
\* the except clause does not catch.
RECURSIVE parse_rows(_, _)
parse_rows(rows, acc) ==
    IF rows = <<>> \/ acc.exc # "none" THEN acc
    ELSE parse_rows(Tail(rows), add_row(acc, parse_row(Head(rows))))

NoRows == [time_data |-> <<>>, ml_data |-> <<>>, ap_data |-> <<>>, exc |-> "none"]

\* Mutant: ~((time_data < start_time) | (time_data > end_time)), which a NaN passes
time_mask_not_outside(time_data) ==
    [i \in DOMAIN time_data |->
        ~IsNum(time_data[i]) \/ (float_ge(time_data[i], start_time) /\ float_le(time_data[i], end_time))]
\* Mutant: (time_data > start_time) & (time_data <= end_time)
time_mask_open(time_data) ==
    [i \in DOMAIN time_data |->
        float_gt(time_data[i], start_time) /\ float_le(time_data[i], end_time)]
\* Mutant: the window is counted from the time of the first sample
time_mask_relative(time_data) ==
    [i \in DOMAIN time_data |->
        /\ IsNum(time_data[i]) /\ IsNum(time_data[1])
        /\ time_data[i][2] - time_data[1][2] >= start_time * Scale
        /\ time_data[i][2] - time_data[1][2] <= end_time * Scale]
\* Line 235: (time_data >= start_time) & (time_data <= end_time)
time_mask(time_data) ==
    [i \in DOMAIN time_data |->
        float_ge(time_data[i], start_time) /\ float_le(time_data[i], end_time)]

\* arr[mask]
RECURSIVE masked(_, _)
masked(arr, mask) ==
    IF arr = <<>> THEN <<>>
    ELSE LET rest == masked(Take(arr, Len(arr) - 1), Take(mask, Len(mask) - 1))
         IN  IF mask[Len(arr)] THEN Append(rest, arr[Len(arr)]) ELSE rest

(***************************************************************************)
(* apply_butterworth_filter.  scipy.signal.butter raises ValueError unless *)
(* 0 < Wn < 1, and filtfilt raises ValueError unless the input is longer   *)
(* than its padding, 3 * max(len(a), len(b)) = 3 * (order + 1) samples.    *)
(* The output has the length of the input; its values are not computed:    *)
(* sample i is <<"filtered", i>>, or NaN when the input holds a NaN, which *)
(* the recursion spreads over the whole output.                            *)
(***************************************************************************)
\* An exact quotient p / q, q > 0, in lowest terms
RECURSIVE gcd(_, _)
gcd(a, b) == IF b = 0 THEN a ELSE gcd(b, a % b)
abs(a) == IF a < 0 THEN -a ELSE a
lowest_terms(tag, p, q) ==
    IF p = 0 THEN <<tag, 0, 1>> ELSE <<tag, p \div gcd(abs(p), q), q \div gcd(abs(p), q)>>

\* Mutant: normalized_cutoff = self.filter_cutoff / sampling_rate
normalized_cutoff_of_rate(sampling_rate) ==
    IF sampling_rate = 0 THEN <<"ZeroDivisionError">>
    ELSE lowest_terms("ratio", filter_cutoff, sampling_rate)
\* Lines 100-101: the cutoff as a fraction of the Nyquist frequency sampling_rate / 2
normalized_cutoff(sampling_rate) ==
    IF sampling_rate = 0 THEN <<"ZeroDivisionError">>
    ELSE lowest_terms("ratio", 2 * filter_cutoff, sampling_rate)
\* Lines 104-108: what one call hands to signal.butter and to signal.filtfilt, which
\* runs the filter over the data forward and then backward
filter_call(data, sampling_rate) ==
    [data |-> data, sampling_rate |-> sampling_rate,
     N |-> filter_order, Wn |-> normalized_cutoff(sampling_rate), btype |-> "low",
     analog |-> FALSE, passes |-> <<"forward", "backward">>]

padlen == 3 * (filter_order + 1)

\* Mutant: only the samples clear of the padded edges are returned
apply_butterworth_filter_valid(data, sampling_rate) ==
    IF sampling_rate = 0
    THEN <<"raise", "ZeroDivisionError">>
    ELSE IF ~(2 * filter_cutoff < sampling_rate)
    THEN <<"raise", "ValueError">>
    ELSE IF Len(data) <= padlen
    THEN <<"raise", "ValueError">>
    ELSE <<"ok", [i \in 1..(Len(data) - padlen) |->
                     IF \E j \in DOMAIN data : ~IsNum(data[j]) THEN NaN
                     ELSE <<"filtered", i>>]>>
apply_butterworth_filter(data, sampling_rate) ==
    IF sampling_rate = 0
    THEN <<"raise", "ZeroDivisionError">>       \* filter_cutoff / nyquist, nyquist = 0.0
    ELSE IF ~(2 * filter_cutoff < sampling_rate)
    THEN <<"raise", "ValueError">>              \* butter: normalized_cutoff >= 1
    ELSE IF Len(data) <= padlen
    THEN <<"raise", "ValueError">>              \* filtfilt: input no longer than padlen
    ELSE <<"ok", [i \in DOMAIN data |->
                     IF \E j \in DOMAIN data : ~IsNum(data[j]) THEN NaN
                     ELSE <<"filtered", i>>]>>

\* Lines 253-264
TrialData(subject_id, trial_name, session, sampling_rate, time_raw, ml_raw, ap_raw, time_trimmed, ml_filtered, ap_filtered) ==
    [subject_id |-> subject_id, trial_name |-> trial_name, session |-> session,
     sampling_rate |-> sampling_rate, time_raw |-> time_raw, ml_raw |-> ml_raw,
     ap_raw |-> ap_raw, time_trimmed |-> time_trimmed, ml_filtered |-> ml_filtered,
     ap_filtered |-> ap_filtered]

(***************************************************************************)
(* The dict self.processed_data                                            *)
(***************************************************************************)
dict_keys(d) == {d[i][1] : i \in DOMAIN d}
dict_get(d, k) == d[CHOOSE i \in DOMAIN d : d[i][1] = k][2]
\* Mutant: a new key gets its empty list and the record is appended only to a list
\* that was there
dict_append_known(d, k, v) ==
    IF k \in dict_keys(d)
    THEN [i \in DOMAIN d |-> IF d[i][1] = k THEN <<k, Append(d[i][2], v)>> ELSE d[i]]
    ELSE Append(d, <<k, <<>>>>)
\* Mutant: the subject's list is replaced by a list of the new record alone.
dict_append_replace(d, k, v) ==
    IF k \in dict_keys(d)
    THEN [i \in DOMAIN d |-> IF d[i][1] = k THEN <<k, <<v>>>> ELSE d[i]]
    ELSE Append(d, <<k, <<v>>>>)
\* if k not in d: d[k] = [] ; d[k].append(v)
dict_append(d, k, v) ==
    IF k \in dict_keys(d)
    THEN [i \in DOMAIN d |-> IF d[i][1] = k THEN <<k, Append(d[i][2], v)>> ELSE d[i]]
    ELSE Append(d, <<k, <<v>>>>)
RECURSIVE dict_count(_)
dict_count(d) == IF d = <<>> THEN 0 ELSE Len(Head(d)[2]) + dict_count(Tail(d))

(***************************************************************************)
(* process_all_files                                                       *)
(***************************************************************************)
\* Path.glob('*.csv'): the entries whose name ends in .csv
is_csv(name) == Len(name) >= 4 /\ Drop(name, Len(name) - 4) = <<".", "c", "s", "v">>
glob_csv(dir) == SelectSeq(dir.entries, LAMBDA f : is_csv(file_name(f)))
tagged(files, session) == [i \in DOMAIN files |-> <<files[i], session>>]

\* Mutant: the intervention files are collected first
discover_intervention_first(b, i) ==
    (IF i.exists THEN tagged(glob_csv(i), "intervention") ELSE <<>>)
    \o (IF b.exists THEN tagged(glob_csv(b), "baseline") ELSE <<>>)
\* Mutant: nothing is collected unless both directories exist
discover_needs_both(b, i) ==
    IF b.exists /\ i.exists
    THEN tagged(glob_csv(b), "baseline") \o tagged(glob_csv(i), "intervention")
    ELSE <<>>
\* Lines 281-297
discover(b, i) ==
    (IF b.exists THEN tagged(glob_csv(b), "baseline") ELSE <<>>)
    \o (IF i.exists THEN tagged(glob_csv(i), "intervention") ELSE <<>>)

cur_file == all_files[idx][1]
cur_session == all_files[idx][2]

\* One file, or none, in the baseline directory and no intervention directory.
ParseInit ==
    /\ baseline_dir \in {Directory(TRUE, <<>>)} \cup {Directory(TRUE, <<f>>) : f \in ParseFiles}
    /\ intervention_dir = MissingDirectory
    /\ InitProcessor


(***************************************************************************)
(* Actions                                                                 *)
(***************************************************************************)
\* Mutant: self.processed_data = {} at the top of process_all_files
Call_reset ==
    /\ pc \in {"idle", "done"}
    /\ runs < MaxRuns
    /\ runs' = runs + 1
    /\ all_files' = discover(baseline_dir, intervention_dir)
    /\ warned' = warned
           \cup (IF baseline_dir.exists THEN {} ELSE {<<"Baseline directory not found">>})
           \cup (IF intervention_dir.exists THEN {} ELSE {<<"Intervention directory not found">>})
           \cup (IF all_files' = <<>> THEN {<<"No CSV files found">>} ELSE {})    \* line 300
    /\ attempted' = [i \in DOMAIN all_files' |-> 0]
    /\ processed_data' = <<>>
    /\ at_call' = processed_data
    /\ successful' = 0
    /\ failed' = 0
    /\ idx' = 1
    /\ pc' = IF all_files' = <<>> THEN "done" ELSE "loop"
    /\ UNCHANGED <<aux, baseline_dir, intervention_dir, loc, exc, raised_at,
                   open_files, errlog, appended>>
\* process_all_files is called (lines 281-305): the files are collected, a
\* missing directory is warned about, and with no file at all the call returns.
Call ==
    /\ pc \in {"idle", "done"}
    /\ runs < MaxRuns
    /\ runs' = runs + 1
    /\ all_files' = discover(baseline_dir, intervention_dir)
    /\ warned' = warned
           \cup (IF baseline_dir.exists THEN {} ELSE {<<"Baseline directory not found">>})
           \cup (IF intervention_dir.exists THEN {} ELSE {<<"Intervention directory not found">>})
           \cup (IF all_files' = <<>> THEN {<<"No CSV files found">>} ELSE {})    \* line 300
    /\ attempted' = [i \in DOMAIN all_files' |-> 0]
    /\ at_call' = processed_data
    /\ successful' = 0
    /\ failed' = 0
    /\ idx' = 1
    /\ pc' = IF all_files' = <<>> THEN "done" ELSE "loop"
    /\ UNCHANGED <<aux, baseline_dir, intervention_dir, processed_data, loc, exc, raised_at,
                   open_files, errlog, appended>>

\* for filepath, session in all_files (line 307): the next file enters the try block
BeginFile ==
    /\ pc = "loop"
    /\ idx <= Len(all_files)
    /\ attempted' = [attempted EXCEPT ![idx] = @ + 1]
    /\ loc' = NoLocals
    /\ pc' = "open"
    /\ UNCHANGED <<aux, baseline_dir, intervention_dir, processed_data, all_files, idx, successful,
                   failed, exc, raised_at, open_files, warned, errlog, appended, runs, at_call>>

\* The loop is exhausted (lines 323-330): the counts are printed, the dict returned.
Finish ==
    /\ pc = "loop"
    /\ idx > Len(all_files)
    /\ pc' = "done"
    /\ UNCHANGED <<aux, baseline_dir, intervention_dir, processed_data, all_files, idx, successful,
                   failed, loc, exc, raised_at, open_files, warned, errlog, appended, runs,
                   attempted, at_call>>

\* with open(filepath, 'r', encoding='utf-8-sig') as f (line 134)
OpenFile ==
    /\ pc = "open"
    /\ IF cur_file.kind = "denied"
       THEN /\ exc' = "PermissionError"
            /\ raised_at' = "open"
            /\ pc' = "except"
            /\ UNCHANGED open_files
       ELSE /\ open_files' = open_files \cup {<<idx, cur_file>>}
            /\ pc' = "read"
            /\ UNCHANGED <<exc, raised_at>>
    /\ UNCHANGED <<aux, baseline_dir, intervention_dir, processed_data, all_files, idx, successful,
                   failed, loc, warned, errlog, appended, runs, attempted, at_call>>

\* Mutant: f = open(...) without the with block, closed only after the last line
ReadLines_leak ==
    /\ pc = "read"
    /\ IF cur_file.kind = "binary"
       THEN /\ exc' = "UnicodeDecodeError"
            /\ raised_at' = "read"
            /\ pc' = "except"
            /\ UNCHANGED open_files
       ELSE /\ pc' = "meta"
            /\ open_files' = open_files \ {<<idx, cur_file>>}
            /\ UNCHANGED <<exc, raised_at>>
    /\ UNCHANGED <<aux, baseline_dir, intervention_dir, processed_data, all_files, idx, successful,
                   failed, loc, warned, errlog, appended, runs, attempted, at_call>>
\* for line in f (lines 135-138); leaving the with block closes the file either way
ReadLines ==
    /\ pc = "read"
    /\ open_files' = open_files \ {<<idx, cur_file>>}
    /\ IF cur_file.kind = "binary"
       THEN /\ exc' = "UnicodeDecodeError"
            /\ raised_at' = "read"
            /\ pc' = "except"
       ELSE /\ pc' = "meta"
            /\ UNCHANGED <<exc, raised_at>>
    /\ UNCHANGED <<aux, baseline_dir, intervention_dir, processed_data, all_files, idx, successful,
                   failed, loc, warned, errlog, appended, runs, attempted, at_call>>

\* Lines 146-191: sampling rate, subject id and trial name, with their warnings
ParseMetadata ==
    /\ pc = "meta"
    /\ LET meta == metadata_row(all_data(cur_file))
           sampling_rate == parse_sampling_rate(meta)
           trial_name == read_trial_name(meta)
       IN  /\ loc' = [loc EXCEPT !.sampling_rate = sampling_rate,
                                 !.subject_id = resolve_subject_id(meta, file_name(cur_file)),
                                 !.trial_name = trial_name]
           /\ warned' = warned
                  \cup (IF sampling_rate # expected_sampling_rate
                        THEN {<<"Sampling rate does not match", idx>>} ELSE {})
                  \cup (IF ~validate_subject_id(read_subject_id(meta))
                        THEN {<<"Invalid subject ID format", idx>>} ELSE {})
                  \cup (IF ~validate_trial_name(trial_name)
                        THEN {<<"Unexpected trial name format", idx>>} ELSE {})
    /\ pc' = "rows"
    /\ UNCHANGED <<aux, baseline_dir, intervention_dir, processed_data, all_files, idx, successful,
                   failed, exc, raised_at, open_files, errlog, appended, runs, attempted,
                   at_call>>

\* Lines 194-222: the three raw arrays
ParseRows ==
    /\ pc = "rows"
    /\ \E parsed \in {parse_rows(data_rows(all_data(cur_file)), NoRows)} :
           IF parsed.exc # "none"
           THEN /\ exc' = parsed.exc
                /\ raised_at' = "rows"
                /\ pc' = "except"
                /\ UNCHANGED loc
           ELSE /\ loc' = [loc EXCEPT !.time_data = parsed.time_data,
                                      !.ml_data = parsed.ml_data,
                                      !.ap_data = parsed.ap_data]
                /\ pc' = "window"
                /\ UNCHANGED <<exc, raised_at>>
    /\ UNCHANGED <<aux, baseline_dir, intervention_dir, processed_data, all_files, idx, successful,
                   failed, open_files, warned, errlog, appended, runs, attempted, at_call>>

\* Lines 235-243: the samples of the window, and the warning when there is none
Window ==
    /\ pc = "window"
    /\ LET mask == time_mask(loc.time_data)
           time_trimmed == masked(loc.time_data, mask)
       IN  /\ loc' = [loc EXCEPT !.time_trimmed = time_trimmed,
                                 !.ml_trimmed = masked(loc.ml_data, mask),
                                 !.ap_trimmed = masked(loc.ap_data, mask)]
           /\ warned' = warned
                  \cup (IF Len(time_trimmed) = 0 THEN {<<"No data found in window", idx>>} ELSE {})
    /\ pc' = "filter"
    /\ UNCHANGED <<aux, baseline_dir, intervention_dir, processed_data, all_files, idx, successful,
                   failed, exc, raised_at, open_files, errlog, appended, runs, attempted,
                   at_call>>

\* Mutant: the filter is applied whatever the window holds
window_is_empty_never(time_trimmed) == FALSE
\* Mutant: if len(time_data) == 0, the raw array in place of the trimmed one
window_is_empty_raw(time_trimmed) == Len(loc.time_data) = 0
\* Line 240: if len(time_trimmed) == 0
window_is_empty(time_trimmed) == Len(time_trimmed) = 0

\* Lines 242-250: empty outputs for an empty window, else ML then AP are filtered
Filter ==
    /\ pc = "filter"
    /\ LET ml == apply_butterworth_filter(loc.ml_trimmed, loc.sampling_rate)
           ap == apply_butterworth_filter(loc.ap_trimmed, loc.sampling_rate)
       IN  IF window_is_empty(loc.time_trimmed)
           THEN /\ loc' = [loc EXCEPT !.ml_filtered = <<>>, !.ap_filtered = <<>>]
                /\ pc' = "return"
                /\ UNCHANGED <<exc, raised_at>>
           ELSE IF ml[1] = "raise" \/ ap[1] = "raise"
           THEN /\ exc' = IF ml[1] = "raise" THEN ml[2] ELSE ap[2]
                /\ raised_at' = "filter"
                /\ pc' = "except"
                /\ loc' = [loc EXCEPT
                       !.butter_calls = IF ml[1] = "raise" THEN 1 ELSE 2,
                       !.filter_calls =
                           IF ml[1] = "raise"
                           THEN <<filter_call(loc.ml_trimmed, loc.sampling_rate)>>
                           ELSE <<filter_call(loc.ml_trimmed, loc.sampling_rate),
                                  filter_call(loc.ap_trimmed, loc.sampling_rate)>>]
           ELSE /\ loc' = [loc EXCEPT !.ml_filtered = ml[2], !.ap_filtered = ap[2],
                                      !.butter_calls = 2,
                                      !.filter_calls =
                                          <<filter_call(loc.ml_trimmed, loc.sampling_rate),
                                            filter_call(loc.ap_trimmed, loc.sampling_rate)>>]
                /\ pc' = "return"
                /\ UNCHANGED <<exc, raised_at>>
    /\ UNCHANGED <<aux, baseline_dir, intervention_dir, processed_data, all_files, idx, successful,
                   failed, open_files, warned, errlog, appended, runs, attempted, at_call>>

\* Lines 253-266 and 309-316: the record is built, returned and filed under its subject
Return ==
    /\ pc = "return"
    /\ LET trial_data == TrialData(loc.subject_id, loc.trial_name, cur_session,
                                   loc.sampling_rate, loc.time_data, loc.ml_data, loc.ap_data,
                                   loc.time_trimmed, loc.ml_filtered, loc.ap_filtered)
       IN  /\ processed_data' = dict_append(processed_data, trial_data.subject_id, trial_data)
           /\ appended' = Append(appended,
                  [file |-> cur_file, session |-> cur_session, run |-> runs, idx |-> idx,
                   key |-> trial_data.subject_id,
                   pos |-> Len(dict_get(processed_data', trial_data.subject_id))])
    /\ successful' = successful + 1
    /\ idx' = idx + 1
    /\ pc' = "loop"
    /\ UNCHANGED <<aux, baseline_dir, intervention_dir, all_files, failed, loc, exc, raised_at,
                   open_files, warned, errlog, runs, attempted, at_call>>

\* Lines 268-270: process_csv_file prints the error details and raises it again
Reraise ==
    /\ pc = "except"
    /\ pc' = "handler"
    /\ UNCHANGED <<aux, baseline_dir, intervention_dir, processed_data, all_files, idx, successful,
                   failed, loc, exc, raised_at, open_files, warned, errlog, appended, runs,
                   attempted, at_call>>

\* Mutant: except ValueError (UnicodeDecodeError is a ValueError)
outer_except_narrow(e) == e \in {"ValueError", "UnicodeDecodeError"}
\* Line 318: except Exception.  Every exception the steps raise is one.
outer_except(e) ==
    e \in {"PermissionError", "UnicodeDecodeError", "ValueError", "IndexError",
           "ZeroDivisionError"}

\* Mutant: a failed file is tried once more before the loop moves on.
Handler_retry ==
    /\ pc = "handler"
    /\ errlog' = Append(errlog, [file |-> cur_file, exc |-> exc, run |-> runs, idx |-> idx])
    /\ failed' = failed + 1
    /\ idx' = IF attempted[idx] < 2 THEN idx ELSE idx + 1
    /\ exc' = "none"
    /\ raised_at' = "none"
    /\ pc' = "loop"
    /\ UNCHANGED <<aux, baseline_dir, intervention_dir, processed_data, all_files, successful, loc,
                   open_files, warned, appended, runs, attempted, at_call>>

\* Lines 318-321: the error is printed and counted, the loop goes on; an exception
\* the clause does not catch leaves process_all_files
Handler ==
    /\ pc = "handler"
    /\ IF outer_except(exc)
       THEN /\ errlog' = Append(errlog, [file |-> cur_file, exc |-> exc, run |-> runs, idx |-> idx])
            /\ failed' = failed + 1
            /\ idx' = idx + 1
            /\ exc' = "none"
            /\ raised_at' = "none"
            /\ pc' = "loop"
       ELSE /\ pc' = "escaped"
            /\ UNCHANGED <<errlog, failed, idx, exc, raised_at>>
    /\ UNCHANGED <<aux, baseline_dir, intervention_dir, processed_data, all_files, successful, loc,
                   open_files, warned, appended, runs, attempted, at_call>>

Next ==
    \/ Call
    \/ BeginFile
    \/ OpenFile
    \/ ReadLines
    \/ ParseMetadata
    \/ ParseRows
    \/ Window
    \/ Filter
    \/ Return
    \/ Reraise
    \/ Handler
    \/ Finish

Spec == Init /\ [][Next]_vars
\* The interpreter runs a call to its end: no step waits on anything.  This is weak
\* fairness of Next, with ENABLED <<Next>>_vars written out as the states that are
\* not Stopped: a call has escaped or returned and no further call is made.
Stopped == pc = "escaped" \/ (pc = "done" /\ runs >= MaxRuns)
FairSpec == Spec /\ ([]<>Stopped \/ []<><<Next>>_vars)
ParseSpec == ParseInit /\ [][Next]_vars

(***************************************************************************)
(***************************************************************************)
(* get_summary (lines 332-358).  np.mean and np.std are computed exactly:  *)
(* a mean is <<"ratio", p, q>>, the fraction p/q of thousandths in lowest  *)
(* terms, a standard deviation is <<"sqrt", p, q>>, the root of p/q, and   *)
(* both are NaN when the array holds a NaN.                                *)
(***************************************************************************)
MaxRecords == 3         \* records filed in the dict get_summary is called on

RECURSIVE total(_)
total(a) == IF a = <<>> THEN 0 ELSE Head(a)[2] + total(Tail(a))
RECURSIVE total_of_squares(_)
total_of_squares(a) ==
    IF a = <<>> THEN 0 ELSE Head(a)[2] * Head(a)[2] + total_of_squares(Tail(a))
has_nan(a) == \E i \in DOMAIN a : ~IsNum(a[i])

\* np.mean(a): of an empty array NaN, with a RuntimeWarning
np_mean(a) ==
    IF Len(a) = 0 \/ has_nan(a) THEN NaN ELSE lowest_terms("ratio", total(a), Len(a))
\* Mutant: np.std(a, ddof=1), the sample standard deviation
np_std_ddof1(a) ==
    IF Len(a) = 0 \/ has_nan(a) THEN NaN
    ELSE IF Len(a) = 1 THEN NaN
    ELSE lowest_terms("sqrt", Len(a) * total_of_squares(a) - total(a) * total(a),
                      Len(a) * (Len(a) - 1))
\* np.std(a): the root of the mean squared deviation from the mean (ddof = 0)
np_std(a) ==
    IF Len(a) = 0 \/ has_nan(a) THEN NaN
    ELSE lowest_terms("sqrt", Len(a) * total_of_squares(a) - total(a) * total(a),
                      Len(a) * Len(a))

\* Lines 345-356: the row of one record
summary_row(trial) ==
    [Subject_ID |-> trial.subject_id,
     Trial_Name |-> trial.trial_name,
     Session |-> trial.session,
     Sampling_Rate |-> trial.sampling_rate,
     Total_Samples |-> Len(trial.time_raw),
     Trimmed_Samples |-> Len(trial.time_trimmed),
     ML_Mean |-> IF Len(trial.ml_filtered) > 0 THEN np_mean(trial.ml_filtered) ELSE NaN,
     ML_Std |-> IF Len(trial.ml_filtered) > 0 THEN np_std(trial.ml_filtered) ELSE NaN,
     AP_Mean |-> IF Len(trial.ap_filtered) > 0 THEN np_mean(trial.ap_filtered) ELSE NaN,
     AP_Std |-> IF Len(trial.ap_filtered) > 0 THEN np_std(trial.ap_filtered) ELSE NaN]
\* for trial in trials (line 344)
summary_rows(trials) == [i \in DOMAIN trials |-> summary_row(trials[i])]

\* Mutant: one row per subject, that of the subject's latest record
RECURSIVE get_summary_per_subject(_)
get_summary_per_subject(d) ==
    IF d = <<>> THEN <<>>
    ELSE <<summary_row(Head(d)[2][Len(Head(d)[2])])>> \o get_summary_per_subject(Tail(d))
\* Lines 341-358: the rows of every subject's records, in the order of the dict
RECURSIVE get_summary(_)
get_summary(d) ==
    IF d = <<>> THEN <<>> ELSE summary_rows(Head(d)[2]) \o get_summary(Tail(d))
\* Everything but what get_summary returns
processor == <<baseline_dir, intervention_dir, processed_data, pc, all_files, idx, successful,
               failed, loc, exc, raised_at, open_files, warned, errlog, appended, runs,
               attempted, at_call>>

\* get_summary is called between two batches
GetSummary ==
    /\ pc \in {"idle", "done"}
    /\ summary' = [called |-> TRUE, rows |-> get_summary(processed_data)]
    /\ UNCHANGED <<processor, synthetic, fit, unwrap>>

\* Records as process_csv_file returns them: a sample at 0 s and `n` samples from
\* 10 s on at 1 Hz, the filtered arrays as long as the window (longer, then, than the
\* filter's padding) with values of a few thousandths, or all NaN, or empty when the
\* window is.
seconds(n) == [i \in 1..n |-> Num((start_time + i - 1) * Scale)]
raw_samples(n) == <<Num(0)>> \o [i \in 1..n |-> Num(Scale \div 2)]
SummaryRecords ==
    << TrialData(SubjCells[1], TrialCells[1], "baseline", expected_sampling_rate,
                 <<Num(0)>> \o seconds(padlen + 1), raw_samples(padlen + 1),
                 raw_samples(padlen + 1), seconds(padlen + 1),
                 [i \in 1..(padlen + 1) |-> Num(i)],
                 [i \in 1..(padlen + 1) |-> Num(3 - (i % 4))]),
       TrialData(SubjCells[1], TrialCells[2], "intervention", expected_sampling_rate,
                 <<Num(0), Num(Scale)>>, <<Num(1), Num(2)>>, <<Num(2), Num(1)>>,
                 <<>>, <<>>, <<>>),
       TrialData(SubjCells[2], TrialCells[1], "baseline", 100,
                 <<Num(0)>> \o seconds(padlen + 2), raw_samples(padlen + 2),
                 <<NaN>> \o [i \in 1..(padlen + 2) |-> NaN], seconds(padlen + 2),
                 [i \in 1..(padlen + 2) |-> Num(7)],
                 [i \in 1..(padlen + 2) |-> NaN]),
       TrialData(SubjCells[6], TrialCells[1], "baseline", expected_sampling_rate,
                 seconds(padlen + 2), [i \in 1..(padlen + 2) |-> Num(Scale \div 2)],
                 [i \in 1..(padlen + 2) |-> Num(Scale \div 2)], seconds(padlen + 2),
                 [i \in 1..(padlen + 2) |-> Num(2 * (i % 3) - 2)],
                 [i \in 1..(padlen + 2) |-> Num(i * (i % 2))]) >>
\* The dict after the records `picks` names were filed one by one (lines 312-316)
RECURSIVE filed(_)
filed(picks) ==
    IF picks = <<>> THEN <<>>
    ELSE dict_append(filed(Take(picks, Len(picks) - 1)),
                     SummaryRecords[picks[Len(picks)]].subject_id,
                     SummaryRecords[picks[Len(picks)]])
RECURSIVE Picks(_)
Picks(n) ==
    IF n = 0 THEN {<<>>}
    ELSE Picks(n - 1) \cup {Append(p, r) : p \in {q \in Picks(n - 1) : Len(q) = n - 1},
                                            r \in DOMAIN SummaryRecords}

\* A processor whose earlier batches filed up to MaxRecords records
SummaryInit ==
    /\ baseline_dir = MissingDirectory
    /\ intervention_dir = MissingDirectory
    /\ pc = "done"
    /\ processed_data \in {filed(p) : p \in Picks(MaxRecords)}
    /\ all_files = <<>>
    /\ idx = 0
    /\ successful = 0
    /\ failed = 0
    /\ loc = NoLocals
    /\ exc = "none"
    /\ raised_at = "none"
    /\ open_files = {}
    /\ warned = {}
    /\ errlog = <<>>
    /\ appended = <<>>
    /\ runs = 1
    /\ attempted = <<>>
    /\ at_call = <<>>
    /\ summary = [called |-> FALSE, rows |-> <<>>]
    /\ synthetic = NoSynthetic
    /\ fit = NoFit
    /\ unwrap = NoUnwrap
SummaryNext ==
    \/ GetSummary
SummarySpec == SummaryInit /\ [][SummaryNext]_vars
(***************************************************************************)
(* process_csv_file on a long trial.  The arrays of a 25 s trial at        *)
(* 1500 Hz are too long to carry in a state, so the trial is followed by   *)
(* its lengths: the rows the loop of lines 201-217 has appended, and the   *)
(* number of samples the mask of line 235 keeps.  The time of row i is     *)
(* given by the trial's sampling scheme, in thousandths rounded down,      *)
(* which keeps every comparison with a whole second as it is.              *)
(***************************************************************************)
synthetic_rows == expected_sampling_rate * 25
\* "from zero": i / 1500 s for i = 0 .. 37499; "both ends": 37500 samples evenly
\* spaced from 0 s to 25 s inclusive; "to 25": i / 1500 s for i = 1 .. 37500
SyntheticSchemes == {"from zero", "both ends", "to 25"}
synthetic_time(scheme, i) ==
    CASE scheme = "from zero" -> Num(((i - 1) * Scale) \div expected_sampling_rate)
      [] scheme = "both ends" -> Num(((i - 1) * 25 * Scale) \div (synthetic_rows - 1))
      [] scheme = "to 25" -> Num((i * Scale) \div expected_sampling_rate)

\* One turn of the loop of lines 201-217: the row's three values are appended
SyntheticRow ==
    /\ synthetic.scheme \in SyntheticSchemes
    /\ ~synthetic.windowed
    /\ synthetic.rows < synthetic_rows
    /\ synthetic' = [synthetic EXCEPT !.rows = @ + 1]
    /\ UNCHANGED <<processor, summary, fit, unwrap>>
\* Lines 235-238: the mask over the whole time array, and the samples it keeps
SyntheticWindow ==
    /\ synthetic.scheme \in SyntheticSchemes
    /\ ~synthetic.windowed
    /\ synthetic.rows = synthetic_rows
    /\ synthetic' = [synthetic EXCEPT
           !.windowed = TRUE,
           !.trimmed = Cardinality({i \in 1..synthetic.rows :
                           time_mask(<<synthetic_time(synthetic.scheme, i)>>)[1]})]
    /\ UNCHANGED <<processor, summary, fit, unwrap>>

SyntheticInit ==
    /\ baseline_dir = MissingDirectory
    /\ intervention_dir = MissingDirectory
    /\ processed_data = <<>>
    /\ pc = "idle"
    /\ all_files = <<>>
    /\ idx = 0
    /\ successful = 0
    /\ failed = 0
    /\ loc = NoLocals
    /\ exc = "none"
    /\ raised_at = "none"
    /\ open_files = {}
    /\ warned = {}
    /\ errlog = <<>>
    /\ appended = <<>>
    /\ runs = 0
    /\ attempted = <<>>
    /\ at_call = <<>>
    /\ summary = [called |-> FALSE, rows |-> <<>>]
    /\ synthetic \in {[scheme |-> s, rows |-> 0, windowed |-> FALSE, trimmed |-> 0] :
                         s \in SyntheticSchemes}
    /\ fit = NoFit
    /\ unwrap = NoUnwrap
SyntheticNext ==
    \/ SyntheticRow
    \/ SyntheticWindow
SyntheticSpec == SyntheticInit /\ [][SyntheticNext]_vars
(***************************************************************************)
(* shared/specparam_utils: load_matlab_spectra, extract_spectra_data and   *)
(* the first lines of assess_model_fit.  A .mat file is                    *)
(*   kind   : "missing", "garbage" (loadmat raises another error), "v5"   *)
(*            (loadmat reads it), "v73" (HDF5: loadmat raises              *)
(*            NotImplementedError and h5py.File opens it)                  *)
(*   key    : the top-level variable, "results", "results_filtered" or     *)
(*            another                                                      *)
(*   group  : whether that variable is an h5py Group                       *)
(*   fields : the datasets of the group, <<name, shape>> pairs             *)
(* A DataFrame is kept as its columns and its number of rows.              *)
(***************************************************************************)
MaxEntries == 3         \* entries of the struct array of a .mat file

has_field(fields, name) == \E k \in DOMAIN fields : fields[k][1] = name
shape_of(fields, name) == fields[CHOOSE k \in DOMAIN fields : fields[k][1] = name][2]
RECURSIVE largest(_)
largest(s) == IF s = <<>> THEN 1 ELSE IF Head(s) > largest(Tail(s)) THEN Head(s) ELSE largest(Tail(s))
\* Lines 117-143: the number of entries one field suggests
entries_of_field(name, shape) ==
    IF Len(shape) = 1 THEN shape[1]
    ELSE IF name = "spectra"
    THEN IF shape[1] > 100 /\ shape[2] < 100 THEN shape[2]
         ELSE IF shape[2] > 100 /\ shape[1] > 1000 THEN shape[1]
         ELSE shape[2]
    ELSE IF shape[1] > shape[2] THEN shape[1] ELSE shape[2]
\* Lines 107-147: the fields are tried in turn until one suggests more than one
\* entry; 0 stands for None
RECURSIVE probe_fields(_, _, _)
probe_fields(fields, names, num_entries) ==
    IF names = <<>> THEN num_entries
    ELSE IF ~has_field(fields, Head(names)) THEN probe_fields(fields, Tail(names), num_entries)
    ELSE IF entries_of_field(Head(names), shape_of(fields, Head(names))) > 1
    THEN entries_of_field(Head(names), shape_of(fields, Head(names)))
    ELSE probe_fields(fields, Tail(names),
                      entries_of_field(Head(names), shape_of(fields, Head(names))))
\* Lines 150-160: failing that, the largest dimension of any field
RECURSIVE max_dim(_)
max_dim(fields) ==
    IF fields = <<>> THEN 1
    ELSE largest(<<largest(Head(fields)[2]), max_dim(Tail(fields))>>)
num_entries_of(fields) ==
    IF probe_fields(fields, <<"subject", "session", "component", "spectra">>, 0) \in {0, 1}
    THEN max_dim(fields)
    ELSE probe_fields(fields, <<"subject", "session", "component", "spectra">>, 0)

DataFrame(columns, rows) == [kind |-> "DataFrame", columns |-> columns, rows |-> rows]
\* Lines 72-318: one entry per struct element, with a key for every field of the group
extract_spectra_data_h5py(mat_data) ==
    IF mat_data.key \notin {"results", "results_filtered"} THEN None
    ELSE IF ~mat_data.group THEN None
    ELSE DataFrame({mat_data.fields[k][1] : k \in DOMAIN mat_data.fields},
                   num_entries_of(mat_data.fields))
\* Lines 66-69: a docstring and two comments; the call returns None
extract_spectra_data_scipy(mat_data) == None
\* Lines 60-63
extract_spectra_data(mat_data, format_type) ==
    IF format_type = "h5py"
    THEN extract_spectra_data_h5py(mat_data)
    ELSE extract_spectra_data_scipy(mat_data)
\* Lines 21-45: <<mat_data, format_type>>
load_matlab_spectra(file) ==
    CASE file.kind = "v5" -> <<file, "scipy">>
      [] file.kind = "v73" -> <<file, "h5py">>
      [] OTHER -> <<NoMat, "None">>
\* The .mat files: the struct array holds n entries, whose subject and spectra
\* fields, where it has them, are stored one way round or the other
Mat(kind, key, group, fields) == [kind |-> kind, key |-> key, group |-> group, fields |-> fields]
FieldLayouts(n) ==
    {subject \o spectra :
        subject \in {<<>>, << <<"subject", <<n, 1>>>> >>, << <<"subject", <<1, n>>>> >>},
        spectra \in {<<>>, << <<"spectra", <<251, n>>>> >>, << <<"spectra", <<n, 251>>>> >>}}
MatFiles ==
    {Mat("missing", "none", FALSE, <<>>), Mat("garbage", "none", FALSE, <<>>)}
    \cup {Mat(kind, key, TRUE, fields) :
             kind \in {"v5", "v73"}, key \in {"results", "results_filtered"},
             fields \in UNION {FieldLayouts(n) : n \in 1..MaxEntries}}
    \cup {Mat("v73", "other", TRUE, << <<"spectra", <<251, 1>>>> >>),
          Mat("v73", "results", FALSE, <<>>)}

\* assess_model_fit, lines 57-59: the file is loaded, or ValueError is raised
FitLoad ==
    /\ fit.pc = "start"
    /\ \E loaded \in {load_matlab_spectra(fit.file)} :
           IF loaded[2] = "None"
           THEN fit' = [fit EXCEPT !.pc = "raised", !.exc = "ValueError"]
           ELSE fit' = [fit EXCEPT !.pc = "extract", !.mat_data = loaded[1],
                                   !.format_type = loaded[2],
                                   !.handle_open = loaded[2] = "h5py"]
    /\ UNCHANGED <<processor, summary, synthetic, unwrap>>
\* Line 61
FitExtract ==
    /\ fit.pc = "extract"
    /\ fit' = [fit EXCEPT !.pc = "close",
                          !.df = extract_spectra_data(fit.mat_data, fit.format_type)]
    /\ UNCHANGED <<processor, summary, synthetic, unwrap>>
\* Lines 64-65: the HDF5 file is closed
FitClose ==
    /\ fit.pc = "close"
    /\ fit' = [fit EXCEPT !.pc = "index",
                          !.handle_open = IF fit.format_type = "h5py" THEN FALSE ELSE @]
    /\ UNCHANGED <<processor, summary, synthetic, unwrap>>
\* Line 68: df['spectra'], of None a TypeError, without the column a KeyError
FitIndex ==
    /\ fit.pc = "index"
    /\ fit' = [fit EXCEPT
           !.pc = IF fit.df = None \/ "spectra" \notin fit.df.columns THEN "raised" ELSE "fitting",
           !.exc = IF fit.df = None THEN "TypeError"
                   ELSE IF "spectra" \notin fit.df.columns THEN "KeyError" ELSE "none"]
    /\ UNCHANGED <<processor, summary, synthetic, unwrap>>

FitInit ==
    /\ baseline_dir = MissingDirectory
    /\ intervention_dir = MissingDirectory
    /\ processed_data = <<>>
    /\ pc = "idle"
    /\ all_files = <<>>
    /\ idx = 0
    /\ successful = 0
    /\ failed = 0
    /\ loc = NoLocals
    /\ exc = "none"
    /\ raised_at = "none"
    /\ open_files = {}
    /\ warned = {}
    /\ errlog = <<>>
    /\ appended = <<>>
    /\ runs = 0
    /\ attempted = <<>>
    /\ at_call = <<>>
    /\ summary = [called |-> FALSE, rows |-> <<>>]
    /\ synthetic = NoSynthetic
    /\ fit \in {[NoFit EXCEPT !.pc = "start", !.file = f] : f \in MatFiles}
    /\ unwrap = NoUnwrap
FitNext ==
    \/ FitLoad
    \/ FitExtract
    \/ FitClose
    \/ FitIndex
FitSpec == FitInit /\ [][FitNext]_vars
(***************************************************************************)
(* Further runs of one processor.  The dict holds what earlier batches     *)
(* left in it, the directories are as they are found now -- missing,       *)
(* without a CSV file, or with some -- and process_all_files is called     *)
(* again and again; runs counts the calls from here on.                    *)
(***************************************************************************)
RerunInit ==
    /\ baseline_dir \in {MissingDirectory, Directory(TRUE, <<>>), Directory(TRUE, <<FNotes>>),
                         Directory(TRUE, <<FA, FB>>),
                         Directory(TRUE, <<FExgm047, FZeroRate, FC>>)}
    /\ intervention_dir \in {MissingDirectory, Directory(TRUE, <<FA>>)}
    /\ processed_data \in {filed(p) : p \in Picks(1)}
    /\ pc = "done"
    /\ all_files = <<>>
    /\ idx = 0
    /\ successful = 0
    /\ failed = 0
    /\ loc = NoLocals
    /\ exc = "none"
    /\ raised_at = "none"
    /\ open_files = {}
    /\ warned = {}
    /\ errlog = <<>>
    /\ appended = <<>>
    /\ runs = 0
    /\ attempted = <<>>
    /\ at_call = processed_data
    /\ summary = [called |-> FALSE, rows |-> <<>>]
    /\ synthetic = NoSynthetic
    /\ fit = NoFit
    /\ unwrap = NoUnwrap
RerunSpec == RerunInit /\ [][Next]_vars
(***************************************************************************)
(* paper1/specparam/append_additional_spectra.py, the loop over the struct *)
(* array (lines 20-76).  A spectra field is a numeric array of some shape  *)
(* inside `depth` object arrays of shape (1, 1), as loadmat nests them; a  *)
(* numeric (1, 1) array holds a scalar.                                    *)
(***************************************************************************)
MaxDepth == 7           \* (1, 1) object arrays around a spectra field
MaxSpectra == 2         \* entries of the struct array

Nested(depth, shape) == [array |-> TRUE, depth |-> depth, shape |-> shape]
\* x.shape
shape(x) == IF x.depth > 0 THEN <<1, 1>> ELSE x.shape
\* x[0, 0] of an array of shape (1, 1)
item(x) == IF x.depth > 0 THEN [x EXCEPT !.depth = @ - 1] ELSE Scalar
RECURSIVE product(_)
product(s) == IF s = <<>> THEN 1 ELSE Head(s) * product(Tail(s))
\* Lines 41-44: the length of the flattened array; np.array(scalar).flatten() has one
flat_len(x) == IF x.array THEN product(shape(x)) ELSE 1
\* Line 32: the test of the while loop
is_wrapped(x) == x.array /\ shape(x) = <<1, 1>>

SpectraFields ==
    {Nested(d, s) : d \in 0..MaxDepth, s \in {<<251>>, <<250>>, <<1, 1>>}}
    \cup {Nested(1, <<1, 251>>), Nested(0, <<251, 1>>)}
RECURSIVE StructArrays(_)
StructArrays(n) ==
    IF n = 0 THEN {<<>>}
    ELSE StructArrays(n - 1)
         \cup {Append(r, x) : r \in {q \in StructArrays(n - 1) : Len(q) = n - 1},
                              x \in SpectraFields}

others_of_unwrap == <<processor, summary, synthetic, fit>>
\* Lines 20-30: the next struct element is taken, or (lines 75-76) the loop is over
UnwrapBegin ==
    /\ unwrap.pc = "for"
    /\ IF unwrap.i < Len(unwrap.results)
       THEN unwrap' = [unwrap EXCEPT !.pc = "while", !.unwrap_count = 0,
                                     !.spectra_unwrapped = unwrap.results[unwrap.i + 1]]
       ELSE unwrap' = [unwrap EXCEPT !.pc = "end"]
    /\ UNCHANGED others_of_unwrap
\* Mutant: the loop without its safety check
UnwrapStep_unchecked ==
    /\ unwrap.pc = "while"
    /\ is_wrapped(unwrap.spectra_unwrapped)
    /\ unwrap' = [unwrap EXCEPT !.spectra_unwrapped = item(@), !.unwrap_count = @ + 1]
    /\ UNCHANGED others_of_unwrap
\* Lines 32-38: one turn of the while loop, left by break after the sixth
UnwrapStep ==
    /\ unwrap.pc = "while"
    /\ is_wrapped(unwrap.spectra_unwrapped)
    /\ unwrap' = [unwrap EXCEPT !.spectra_unwrapped = item(@), !.unwrap_count = @ + 1,
                                !.pc = IF unwrap.unwrap_count + 1 > 5 THEN "flatten" ELSE "while"]
    /\ UNCHANGED others_of_unwrap
\* Line 32: the test fails and the loop ends
UnwrapExit ==
    /\ unwrap.pc = "while"
    /\ ~is_wrapped(unwrap.spectra_unwrapped)
    /\ unwrap' = [unwrap EXCEPT !.pc = "flatten"]
    /\ UNCHANGED others_of_unwrap
\* Lines 41-73: the array is flattened and, with 251 points, appended as an entry
UnwrapValidate ==
    /\ unwrap.pc = "flatten"
    /\ unwrap' = [unwrap EXCEPT
           !.pc = "for", !.i = @ + 1,
           !.new_data = IF flat_len(unwrap.spectra_unwrapped) # 251 THEN @
                        ELSE Append(@, [i |-> unwrap.i,
                                        points |-> flat_len(unwrap.spectra_unwrapped)])]
    /\ UNCHANGED others_of_unwrap

UnwrapInit ==
    /\ baseline_dir = MissingDirectory
    /\ intervention_dir = MissingDirectory
    /\ processed_data = <<>>
    /\ pc = "idle"
    /\ all_files = <<>>
    /\ idx = 0
    /\ successful = 0
    /\ failed = 0
    /\ loc = NoLocals
    /\ exc = "none"
    /\ raised_at = "none"
    /\ open_files = {}
    /\ warned = {}
    /\ errlog = <<>>
    /\ appended = <<>>
    /\ runs = 0
    /\ attempted = <<>>
    /\ at_call = <<>>
    /\ summary = [called |-> FALSE, rows |-> <<>>]
    /\ synthetic = NoSynthetic
    /\ fit = NoFit
    /\ unwrap \in {[NoUnwrap EXCEPT !.pc = "for", !.results = r] : r \in StructArrays(MaxSpectra)}
UnwrapNext ==
    \/ UnwrapBegin
    \/ UnwrapStep
    \/ UnwrapExit
    \/ UnwrapValidate
\* The interpreter runs the script to its end
UnwrapSpec == UnwrapInit /\ [][UnwrapNext]_vars /\ WF_vars(UnwrapNext)
(* Claims                                                                  *)
(***************************************************************************)
IsPrefix(s, t) == Len(s) <= Len(t) /\ Take(t, Len(s)) = s
\* The record an append put into the dict
record_of(a) == dict_get(processed_data, a.key)[a.pos]
Appends == {appended[n] : n \in DOMAIN appended}
Errors == {errlog[n] : n \in DOMAIN errlog}
records_added == dict_count(processed_data) - dict_count(at_call)

\* C1: whatever files raise, no exception leaves process_all_files: each is caught
\* at the per-file boundary, the files after it are still processed (every file
\* before the loop position, and every file once the call has returned, has entered
\* the loop body), and the call returns normally.
C1_FailuresNeverAbortTheBatch ==
    /\ pc # "escaped"
    /\ \A i \in DOMAIN all_files : (i < idx \/ pc = "done") => attempted[i] >= 1
    /\ pc \in {"loop", "done"} => exc = "none"

\* C1 witness: the call has returned, and a file that failed was followed by a
\* file that was processed and filed.
C1_Witness ==
    /\ pc = "done"
    /\ \E e \in Errors : \E a \in Appends : a.run = e.run /\ a.idx > e.idx

\* C2: every step leaves each subject's list a prefix of what it becomes and adds
\* at most one record; a record is added exactly when a file succeeds; a step that
\* counts a failure leaves the mapping as it was; and no failed file is the source
\* of a record of the mapping, whose records all come from successful files.
C2_Step ==
    /\ \A i \in DOMAIN processed_data :
           /\ i \in DOMAIN processed_data'
           /\ processed_data'[i][1] = processed_data[i][1]
           /\ IsPrefix(processed_data[i][2], processed_data'[i][2])
    /\ \/ processed_data' = processed_data
       \/ /\ dict_count(processed_data') = dict_count(processed_data) + 1
          /\ successful' = successful + 1
    /\ successful' = successful + 1 => dict_count(processed_data') = dict_count(processed_data) + 1
    /\ failed' = failed + 1 => processed_data' = processed_data
    /\ dict_count(processed_data') = Len(appended')
    /\ \A e \in Errors' : \A a \in Appends' : ~(a.run = e.run /\ a.idx = e.idx)
C2_AppendOneOrNothing == [][C2_Step]_vars

\* C2 witness: a subject holds two records and a file of the batch has failed.
C2_Witness ==
    /\ failed >= 1
    /\ \E i \in DOMAIN processed_data : Len(processed_data[i][2]) >= 2

\* C3: no file enters the loop body twice in a call; every call returns; and when it
\* has, every discovered file was attempted once, succeeded + failed is the number
\* of discovered files and succeeded is the number of records the call added.
C3_Counts ==
    /\ \A i \in DOMAIN attempted : attempted[i] <= 1
    /\ pc = "done" =>
           /\ \A i \in DOMAIN all_files : attempted[i] = 1
           /\ successful + failed = Len(all_files)
           /\ successful = records_added
C3_OnceEachAndDone == []C3_Counts /\ [](pc # "done" => <>(pc = "done"))

\* C3 witness: a call has returned with files succeeded and files failed.
C3_Witness == pc = "done" /\ successful >= 1 /\ failed >= 1

\* A file of the kind C4 calls corrupt: no digit in the sampling-rate cell and no
\* data row that parses.  A valid file: rate 1500 read from its cell, a well-formed
\* subject id and trial name, every data row parsed, enough samples to filter.
sr_cell(f) == LET meta == metadata_row(all_data(f)) IN IF Len(meta) > 2 THEN meta[3] ELSE <<>>
rows_parsed(f) == parse_rows(data_rows(all_data(f)), NoRows)
is_corrupt(f) ==
    /\ f.kind = "text"
    /\ is_csv(file_name(f))
    /\ \A i \in DOMAIN sr_cell(f) : ~IsDigit(sr_cell(f)[i])
    /\ Len(data_rows(all_data(f))) > 0
    /\ Len(rows_parsed(f).time_data) = 0
is_valid(f) ==
    /\ f.kind = "text"
    /\ is_csv(file_name(f))
    /\ sr_cell(f) # <<>>
    /\ parse_sampling_rate(metadata_row(all_data(f))) = expected_sampling_rate
    /\ validate_subject_id(resolve_subject_id(metadata_row(all_data(f)), file_name(f)))
    /\ validate_trial_name(read_trial_name(metadata_row(all_data(f))))
    /\ Len(rows_parsed(f).time_data) = Len(data_rows(all_data(f)))
    /\ Len(masked(rows_parsed(f).time_data, time_mask(rows_parsed(f).time_data))) > padlen
C4_Batch ==
    /\ pc = "done"
    /\ runs = 1
    /\ baseline_dir.exists
    /\ Len(baseline_dir.entries) = 5
    /\ Cardinality({i \in DOMAIN baseline_dir.entries : is_corrupt(baseline_dir.entries[i])}) = 1
    /\ \A i \in DOMAIN baseline_dir.entries :
           is_corrupt(baseline_dir.entries[i]) \/ is_valid(baseline_dir.entries[i])
    /\ glob_csv(intervention_dir) = <<>>

\* C4 as stated: four valid files and a corrupt one in the baseline directory end
\* with 4 records and one counted failure, and no exception.
C4_FourRecordsOneFailure ==
    C4_Batch => /\ dict_count(processed_data) = 4
                /\ failed = 1
                /\ Len(errlog) = 1
                /\ pc # "escaped"

\* C4 amended: the corrupt file is processed like the others: 5 records, no
\* failure counted or logged, no exception; its record has the default rate 1500
\* and empty raw, trimmed and filtered arrays.
C4_FiveRecordsNoFailure ==
    C4_Batch => /\ dict_count(processed_data) = 5
                /\ successful = 5
                /\ failed = 0
                /\ errlog = <<>>
                /\ \E a \in Appends :
                       /\ is_corrupt(a.file)
                       /\ record_of(a).sampling_rate = expected_sampling_rate
                       /\ record_of(a).time_raw = <<>>
                       /\ record_of(a).time_trimmed = <<>>
                       /\ record_of(a).ml_filtered = <<>>
                       /\ record_of(a).ap_filtered = <<>>

\* C4 witness: such a batch has run to its end.
C4_Witness == C4_Batch /\ dict_count(processed_data) = 5

\* C5: a sampling rate other than 1500 only draws a warning.  The warning is given,
\* and the rate stops no file: when the filter raises on a file with another rate,
\* it raises on the same samples at 1500 Hz as well.
C5_DeviatingRateOnlyWarns ==
    /\ (pc \in {"rows", "window", "filter", "return"}
           /\ loc.sampling_rate # expected_sampling_rate)
           => <<"Sampling rate does not match", idx>> \in warned
    /\ (pc \in {"except", "handler"} /\ raised_at = "filter"
           /\ loc.sampling_rate # expected_sampling_rate)
           => \/ apply_butterworth_filter(loc.ml_trimmed, expected_sampling_rate)[1] = "raise"
              \/ apply_butterworth_filter(loc.ap_trimmed, expected_sampling_rate)[1] = "raise"

\* C6: every record of the aggregate has a sampling rate greater than 0.
C6_PositiveSamplingRate == \A a \in Appends : record_of(a).sampling_rate > 0

Unknown == <<"u", "n", "k", "n", "o", "w", "n">>
\* C7: a record made from a file whose metadata row is missing or ends before the
\* trial-name cell has the trial name "unknown"; one whose row ends before the
\* subject-id cell, and whose file name holds no id, has the subject id "unknown".
C7_MissingCellsAreUnknown ==
    \A a \in Appends :
        LET meta == metadata_row(all_data(a.file))
        IN  /\ Len(meta) <= 12 => record_of(a).trial_name = Unknown
            /\ (Len(meta) <= 7 /\ filename_match(file_name(a.file)) = <<>>)
                   => record_of(a).subject_id = Unknown

\* The cell at index k of the metadata row of file f, <<>> where the row has none
meta_cell(f, k) ==
    LET meta == metadata_row(all_data(f)) IN IF Len(meta) > k THEN meta[k + 1] ELSE <<>>
\* The value of the digits s[i..j], read as a decimal number
RECURSIVE decimal(_, _, _)
decimal(s, i, j) == IF j < i THEN 0 ELSE 10 * decimal(s, i, j - 1) + DigitVal(s[j])
\* The first run of digits of s is s[i..j]
is_first_run(s, i, j) ==
    /\ \A k \in 1..(i - 1) : ~IsDigit(s[k])
    /\ \A k \in i..j : IsDigit(s[k])
    /\ j = Len(s) \/ ~IsDigit(s[j + 1])
rate_of_cell(s) ==
    IF \A k \in DOMAIN s : ~IsDigit(s[k]) THEN 1500
    ELSE LET run == CHOOSE r \in (DOMAIN s) \X (DOMAIN s) : r[1] <= r[2] /\ is_first_run(s, r[1], r[2])
         IN  decimal(s, run[1], run[2])

is_subject_id(s) ==
    /\ Len(s) = 7
    /\ Take(s, 4) = <<"e", "x", "g", "m">>
    /\ \A k \in 5..7 : IsDigit(s[k])
\* The places of the file name where such an id begins
ids_in(name) == {i \in 1..(Len(name) - 6) : is_subject_id(SubSeq(name, i, i + 6))}
first_id_in(name) ==
    LET i == CHOOSE i \in ids_in(name) : \A j \in ids_in(name) : i <= j
    IN  SubSeq(name, i, i + 6)

\* C9: a record's subject id is the stripped cell 7 of the metadata row when that
\* is exgm and three digits; else the first such id in the file name when there is
\* one; else the cell as it is, and the record is filed under that id.
C9_TwoStageSubjectId ==
    \A a \in Appends :
        LET cell == strip(meta_cell(a.file, 7))
            name == file_name(a.file)
            expected == IF is_subject_id(cell) THEN cell
                        ELSE IF ids_in(name) # {} THEN first_id_in(name)
                        ELSE cell
        IN  /\ record_of(a).subject_id = expected
            /\ a.key = expected

\* C9 witness: exgm047_shoulder1-2.csv with an empty subject cell is filed as exgm047.
C9_Witness ==
    \E a \in Appends :
        /\ file_name(a.file) = Names[1]
        /\ Len(metadata_row(all_data(a.file))) > 7
        /\ meta_cell(a.file, 7) = <<>>
        /\ a.key = <<"e", "x", "g", "m", "0", "4", "7">>
        /\ record_of(a).subject_id = a.key

\* The data rows of f that hold at least 28 cells whose cells 0, 26 and 27 are each
\* empty or a number float() reads
kept_rows(f) ==
    SelectSeq(data_rows(all_data(f)),
              LAMBDA row : /\ Len(row) >= 28
                           /\ \A k \in {0, 26, 27} :
                                  row[k + 1] = <<>> \/ py_float(row[k + 1]) # ValueError)

\* C10: no exception comes out of the reading of the metadata or of the data rows,
\* whatever the file holds: once those stages are over, the locals hold a rate, an
\* id and a trial name, and one sample for each row that could be parsed.
C10_ParsingNeverRaises ==
    /\ raised_at \notin {"meta", "rows"}
    /\ pc \in {"meta", "rows", "window"} => exc = "none"
    /\ pc = "window" => /\ Len(loc.time_data) = Len(kept_rows(cur_file))
                        /\ Len(loc.ml_data) = Len(kept_rows(cur_file))
                        /\ Len(loc.ap_data) = Len(kept_rows(cur_file))

\* C10 witness: a file whose rate cell holds no digit and whose data block has rows
\* that parse and rows that do not has passed both stages.
C10_Witness ==
    /\ pc = "window"
    /\ meta_cell(cur_file, 2) # <<>>
    /\ search_digits(meta_cell(cur_file, 2)) = <<>>
    /\ loc.sampling_rate = expected_sampling_rate
    /\ Len(loc.time_data) > 0
    /\ Len(loc.time_data) < Len(data_rows(all_data(cur_file)))

\* The raw arrays after the first k data rows of f
raw_after(f, k) == parse_rows(Take(data_rows(all_data(f)), k), NoRows)

\* C11: the three raw arrays of every record have one length, and so have the
\* arrays built from any number of leading data rows of its file: no row adds to
\* one array without adding to the other two.
C11_RawArraysEqualLength ==
    /\ \A a \in Appends :
           /\ Len(record_of(a).time_raw) = Len(record_of(a).ml_raw)
           /\ Len(record_of(a).ml_raw) = Len(record_of(a).ap_raw)
    /\ pc = "window" =>
           \A k \in 0..Len(data_rows(all_data(cur_file))) :
               /\ Len(raw_after(cur_file, k).time_data) = Len(raw_after(cur_file, k).ml_data)
               /\ Len(raw_after(cur_file, k).ml_data) = Len(raw_after(cur_file, k).ap_data)
               /\ k > 0 => Len(raw_after(cur_file, k).time_data)
                               - Len(raw_after(cur_file, k - 1).time_data) \in {0, 1}

\* C11 witness: a record of a file with rows that were dropped and rows with an
\* empty AP cell holds raw arrays that are not empty.
C11_Witness ==
    \E a \in Appends :
        /\ Len(record_of(a).time_raw) > 0
        /\ Len(record_of(a).time_raw) < Len(data_rows(all_data(a.file)))
        /\ \E i \in DOMAIN record_of(a).ap_raw : record_of(a).ap_raw[i] = NaN

\* A cell float() reads
is_numeric(cell) == cell # <<>> /\ py_float(cell) # ValueError
\* The places in all_data, counted from 1, of the data rows of f (row index >= 4)
\* with at least 28 cells whose cells 0, 26 and 27 each satisfy ok
rows_where(f, ok(_)) ==
    {i \in 5..Len(all_data(f)) :
        /\ Len(all_data(f)[i]) >= 28
        /\ \A k \in {0, 26, 27} : ok(all_data(f)[i][k + 1])}
numeric_or_empty(cell) == cell = <<>> \/ is_numeric(cell)

\* C12 as stated: the raw arrays of a record are as long as the number of data rows
\* with at least 28 cells and three numerically parseable cells.
C12_LengthIsParseableRows ==
    \A a \in Appends :
        Len(record_of(a).time_raw) = Cardinality(rows_where(a.file, is_numeric))

\* C12 amended: they are as long as the number of data rows with at least 28 cells
\* whose cells 0, 26 and 27 are each numerically parseable or empty.
C12_LengthIsParseableOrEmptyRows ==
    \A a \in Appends :
        /\ Len(record_of(a).time_raw) = Cardinality(rows_where(a.file, numeric_or_empty))
        /\ Len(record_of(a).ml_raw) = Cardinality(rows_where(a.file, numeric_or_empty))
        /\ Len(record_of(a).ap_raw) = Cardinality(rows_where(a.file, numeric_or_empty))

\* C12 witness: a record of a file in which rows with an empty cell are counted
\* and other rows are not.
C12_Witness ==
    \E a \in Appends :
        /\ rows_where(a.file, is_numeric) # rows_where(a.file, numeric_or_empty)
        /\ rows_where(a.file, numeric_or_empty) # 5..Len(all_data(a.file))
        /\ Len(record_of(a).time_raw) = Cardinality(rows_where(a.file, numeric_or_empty))

\* The k-th smallest member of the set S of numbers
kth(S, k) == CHOOSE i \in S : Cardinality({j \in S : j < i}) = k - 1
\* The value a cell that is empty or numeric stands for
value_of(cell) == IF cell = <<>> THEN NaN ELSE py_float(cell)
\* Column c of the rows of f at the places S, in file order
column_of(f, S, c) == [k \in 1..Cardinality(S) |-> value_of(all_data(f)[kth(S, k)][c + 1])]

\* C13: the raw arrays of a record hold, in file order, one element for each data
\* row with at least 28 cells whose cells 0, 26 and 27 are each empty or numeric,
\* NaN for each empty cell, and nothing for any other data row: a shorter row or
\* one with a non-empty cell that is no number.
C13_ShortRowsDroppedEmptyCellsKept ==
    \A a \in Appends :
        LET S == rows_where(a.file, numeric_or_empty)
        IN  /\ record_of(a).time_raw = column_of(a.file, S, 0)
            /\ record_of(a).ml_raw = column_of(a.file, S, 26)
            /\ record_of(a).ap_raw = column_of(a.file, S, 27)

\* C13 witness: a record of a file with a short row, a row with a cell of text and
\* rows with an empty time, ML or AP cell, which are kept as NaN.
C13_Witness ==
    \E a \in Appends :
        /\ \E i \in 5..Len(all_data(a.file)) : Len(all_data(a.file)[i]) < 28
        /\ \E i \in 5..Len(all_data(a.file)) :
               /\ Len(all_data(a.file)[i]) >= 28
               /\ i \notin rows_where(a.file, numeric_or_empty)
        /\ \E i \in DOMAIN record_of(a).time_raw :
               record_of(a).time_raw[i] = NaN /\ IsNum(record_of(a).ml_raw[i])
        /\ \E i \in DOMAIN record_of(a).ml_raw :
               record_of(a).ml_raw[i] = NaN /\ IsNum(record_of(a).time_raw[i])

\* 10 <= t <= 30, for a time in thousandths of a second; NaN and the infinities are outside
in_10_30(t) == IsNum(t) /\ 10 * Scale <= t[2] /\ t[2] <= 30 * Scale
positions_10_30(time) == {i \in DOMAIN time : in_10_30(time[i])}
\* The elements of arr at the places S, in their order
elements_at(arr, S) == [k \in 1..Cardinality(S) |-> arr[kth(S, k)]]

\* C14: after the windowing step the trimmed time, ML and AP arrays are the elements
\* of the raw arrays, in order, at exactly the places whose time t has
\* 10 <= t <= 30, both ends included; and so is time_trimmed in every record.
C14_TrimmedIsInclusiveWindow ==
    /\ pc \in {"filter", "return"} =>
           /\ loc.time_trimmed = elements_at(loc.time_data, positions_10_30(loc.time_data))
           /\ loc.ml_trimmed = elements_at(loc.ml_data, positions_10_30(loc.time_data))
           /\ loc.ap_trimmed = elements_at(loc.ap_data, positions_10_30(loc.time_data))
    /\ \A a \in Appends :
           record_of(a).time_trimmed
               = elements_at(record_of(a).time_raw, positions_10_30(record_of(a).time_raw))

\* C14 witness: of samples at 9.999, 10.0, 30 and 30.001 s, those at 10 and 30 are kept.
C14_Witness ==
    /\ pc = "filter"
    /\ Len(loc.time_data) = 4
    /\ loc.time_data[1] = Num(10 * Scale - 1)
    /\ loc.time_data[4] = Num(30 * Scale + 1)
    /\ loc.time_trimmed = <<Num(10 * Scale), Num(30 * Scale)>>
    /\ loc.ml_trimmed = <<loc.ml_data[2], loc.ml_data[3]>>

\* C15: windowing the windowed arrays again changes nothing: the mask computed from
\* time_trimmed selects all of time_trimmed, ml_trimmed and ap_trimmed.
C15_WindowingIsIdempotent ==
    pc = "filter" =>
        /\ masked(loc.time_trimmed, time_mask(loc.time_trimmed)) = loc.time_trimmed
        /\ masked(loc.ml_trimmed, time_mask(loc.time_trimmed)) = loc.ml_trimmed
        /\ masked(loc.ap_trimmed, time_mask(loc.time_trimmed)) = loc.ap_trimmed

\* C15 witness: a window that left samples out and kept others, one of them with
\* an ML value of NaN.
C15_Witness ==
    /\ pc = "filter"
    /\ Len(loc.time_trimmed) > 0
    /\ Len(loc.time_trimmed) < Len(loc.time_data)
    /\ \E i \in DOMAIN loc.ml_trimmed : loc.ml_trimmed[i] = NaN

\* No sample of the readable file f has a time in [10, 30]
empty_window(f) ==
    /\ f.kind = "text"
    /\ \A i \in rows_where(f, numeric_or_empty) : ~in_10_30(value_of(all_data(f)[i][1]))

\* C16: a file without a sample in the window raises nothing and is no failure; the
\* filter is not called for it; the warning is given; and once the loop is past
\* it, it has a record in the aggregate, counted as a success, whose trimmed and
\* filtered arrays are empty.
C16_EmptyWindowStillSucceeds ==
    /\ \A e \in Errors : ~empty_window(e.file)
    /\ (pc \in {"rows", "window", "filter", "return", "except", "handler"}
            /\ empty_window(cur_file))
           => /\ exc = "none"
              /\ loc.butter_calls = 0
              /\ pc = "return" => /\ loc.ml_filtered = <<>> /\ loc.ap_filtered = <<>>
                                  /\ <<"No data found in window", idx>> \in warned
    /\ \A i \in DOMAIN all_files :
           (empty_window(all_files[i][1]) /\ (i < idx \/ pc = "done"))
               => \E a \in Appends :
                      /\ a.run = runs /\ a.idx = i /\ a.file = all_files[i][1]
                      /\ record_of(a).time_trimmed = <<>>
                      /\ record_of(a).ml_filtered = <<>>
                      /\ record_of(a).ap_filtered = <<>>
    /\ Cardinality({a \in Appends : a.run = runs}) = successful

\* C16 witness: a file whose samples all lie outside the window has been filed and
\* counted as the one success of its call.
C16_Witness ==
    /\ pc = "done"
    /\ successful = 1
    /\ \E a \in Appends :
           /\ empty_window(a.file)
           /\ Len(record_of(a).time_raw) > 0
           /\ record_of(a).ml_filtered = <<>>

\* C17: in every record ml_filtered and ap_filtered are as long as time_trimmed.
C17_FilteredMatchTrimmed ==
    \A a \in Appends :
        /\ Len(record_of(a).ml_filtered) = Len(record_of(a).time_trimmed)
        /\ Len(record_of(a).ap_filtered) = Len(record_of(a).time_trimmed)

\* C17 witness: a record whose window kept some samples, which were filtered, and
\* left others out.
C17_Witness ==
    \E a \in Appends :
        /\ Len(record_of(a).time_trimmed) > padlen
        /\ Len(record_of(a).time_trimmed) < Len(record_of(a).time_raw)
        /\ Len(record_of(a).ml_filtered) = Len(record_of(a).time_trimmed)

\* The number of entries of a directory that are CSV files, 0 for a missing directory
csv_count(dir) ==
    IF dir.exists
    THEN Cardinality({n \in DOMAIN dir.entries : is_csv(file_name(dir.entries[n]))})
    ELSE 0
\* C18: the mapping has one list per subject id, holding the records with that id,
\* each labelled with the session of the directory its file came from; of two
\* records one call adds to a subject, the one whose file was discovered first
\* comes first; the baseline files are discovered before the intervention files,
\* so a subject's baseline records of a call precede its intervention records.
C18_DiscoveryOrder ==
    /\ \A i, j \in DOMAIN processed_data :
           processed_data[i][1] = processed_data[j][1] => i = j
    /\ \A i \in DOMAIN processed_data : \A n \in DOMAIN processed_data[i][2] :
           processed_data[i][2][n].subject_id = processed_data[i][1]
    /\ \A a \in Appends :
           /\ record_of(a).session = a.session
           /\ a.idx <= csv_count(baseline_dir) <=> a.session = "baseline"
    /\ \A a, b \in Appends :
           (a.key = b.key /\ a.run = b.run)
               => /\ a.idx < b.idx => a.pos < b.pos
                  /\ (a.session = "baseline" /\ b.session = "intervention") => a.pos < b.pos
    /\ \A i, j \in DOMAIN all_files :
           (all_files[i][2] = "baseline" /\ all_files[j][2] = "intervention") => i < j

\* C18 witness: a call has filed two baseline records and then an intervention
\* record under one subject.
C18_Witness ==
    /\ pc = "done"
    /\ \E a, b, c \in Appends :
           /\ a.key = b.key /\ b.key = c.key
           /\ a.run = b.run /\ b.run = c.run
           /\ a.session = "baseline" /\ b.session = "baseline" /\ c.session = "intervention"
           /\ a.pos < b.pos /\ b.pos < c.pos

\* The files discovered for a session, in order
discovered(session) ==
    LET S == {n \in DOMAIN all_files : all_files[n][2] = session}
    IN  [k \in 1..Cardinality(S) |-> all_files[kth(S, k)][1]]

\* C19: once process_all_files is called with a session directory missing, the
\* warning for that directory has been given, no file is discovered for that
\* session, every CSV file of the other directory is discovered, no exception
\* leaves the call, and when it returns each of those files has been processed.
C19_MissingDirectoryOnlyWarns ==
    runs >= 1 =>
        /\ ~baseline_dir.exists =>
               /\ <<"Baseline directory not found">> \in warned
               /\ discovered("baseline") = <<>>
               /\ intervention_dir.exists => discovered("intervention") = glob_csv(intervention_dir)
        /\ ~intervention_dir.exists =>
               /\ <<"Intervention directory not found">> \in warned
               /\ discovered("intervention") = <<>>
               /\ baseline_dir.exists => discovered("baseline") = glob_csv(baseline_dir)
        /\ (~baseline_dir.exists \/ ~intervention_dir.exists) =>
               /\ pc # "escaped"
               /\ pc = "done" => /\ \A i \in DOMAIN all_files : attempted[i] = 1
                                 /\ successful + failed = Len(all_files)

\* C19 witness: with no baseline directory, a call has returned after filing the
\* record of an intervention file.
C19_Witness ==
    /\ pc = "done"
    /\ ~baseline_dir.exists
    /\ intervention_dir.exists
    /\ \E a \in Appends : a.run = runs /\ a.session = "intervention"

\* The log lines that tell of a session without files: the warning for its
\* directory, and the line printed when no CSV file is found at all
session_warnings(session) ==
    {IF session = "baseline" THEN <<"Baseline directory not found">>
                             ELSE <<"Intervention directory not found">>,
     <<"No CSV files found">>}
session_dir(session) == IF session = "baseline" THEN baseline_dir ELSE intervention_dir

\* C20: once process_all_files is called with a session directory that exists and
\* holds no CSV file, no record of the call is of that session, a warning for the
\* session has been logged, and no exception leaves the call.
C20_EmptyDirectoryWarns ==
    runs >= 1 =>
        \A session \in Sessions :
            (session_dir(session).exists /\ csv_count(session_dir(session)) = 0)
                => /\ \A a \in Appends : a.run = runs => a.session # session
                   /\ session_warnings(session) \cap warned # {}
                   /\ pc # "escaped"

\* C21: get_summary returns one row per record of the dict, in the dict's order --
\* as many rows as there are records over all subjects -- each row carrying its
\* record's subject, trial name, session, sampling rate, Total_Samples = len(time_raw)
\* and Trimmed_Samples = len(time_trimmed); the call leaves the dict as it was.
RECURSIVE records_in(_)
records_in(d) == IF d = <<>> THEN <<>> ELSE Head(d)[2] \o records_in(Tail(d))
row_describes(row, trial) ==
    /\ row.Subject_ID = trial.subject_id
    /\ row.Trial_Name = trial.trial_name
    /\ row.Session = trial.session
    /\ row.Sampling_Rate = trial.sampling_rate
    /\ row.Total_Samples = Len(trial.time_raw)
    /\ row.Trimmed_Samples = Len(trial.time_trimmed)
C21_Step ==
    GetSummary =>
        /\ processed_data' = processed_data
        /\ Len(summary'.rows) = Len(records_in(processed_data))
        /\ Len(summary'.rows) = dict_count(processed_data)
        /\ \A i \in DOMAIN summary'.rows :
               row_describes(summary'.rows[i], records_in(processed_data)[i])
C21_OneRowPerRecord == [][C21_Step]_vars
\* A summary of three records of two subjects, one of them with two records
C21_Witness ==
    /\ summary.called
    /\ Len(summary.rows) = MaxRecords
    /\ Len(processed_data) = 2
    /\ \E i \in DOMAIN summary.rows :
           summary.rows[i].Trimmed_Samples < summary.rows[i].Total_Samples

\* C22: in a summary row the mean and the standard deviation of a filtered
\* sequence are NaN when the record's sequence is empty; for a non-empty sequence of
\* n numbers they are its mean (n * mean = the sum) and its standard deviation
\* (n * n * std^2 = n * the sum of squares - the square of the sum), and NaN when it
\* holds a NaN.  A record with empty filtered arrays gets its row like any other: the
\* call returns.
is_mean_of(m, a) ==
    IF Len(a) = 0 \/ has_nan(a) THEN m = NaN
    ELSE m[1] = "ratio" /\ m[3] > 0 /\ m[2] * Len(a) = m[3] * total(a)
is_std_of(s, a) ==
    IF Len(a) = 0 \/ has_nan(a) THEN s = NaN
    ELSE /\ s[1] = "sqrt" /\ s[3] > 0
         /\ s[2] * Len(a) * Len(a) = s[3] * (Len(a) * total_of_squares(a) - total(a) * total(a))
C22_MeanAndStdOrNaN ==
    summary.called =>
        /\ Len(summary.rows) = Len(records_in(processed_data))
        /\ \A i \in DOMAIN summary.rows :
               /\ is_mean_of(summary.rows[i].ML_Mean, records_in(processed_data)[i].ml_filtered)
               /\ is_std_of(summary.rows[i].ML_Std, records_in(processed_data)[i].ml_filtered)
               /\ is_mean_of(summary.rows[i].AP_Mean, records_in(processed_data)[i].ap_filtered)
               /\ is_std_of(summary.rows[i].AP_Std, records_in(processed_data)[i].ap_filtered)
\* A summary with a row of an empty-window record and a row with a positive deviation
C22_Witness ==
    /\ summary.called
    /\ \E i \in DOMAIN summary.rows :
           /\ records_in(processed_data)[i].ml_filtered = <<>>
           /\ summary.rows[i].ML_Mean = NaN /\ summary.rows[i].AP_Std = NaN
    /\ \E i \in DOMAIN summary.rows :
           /\ summary.rows[i].ML_Std[1] = "sqrt" /\ summary.rows[i].ML_Std[2] > 0
           /\ summary.rows[i].AP_Mean[1] = "ratio" /\ summary.rows[i].AP_Mean[3] > 1

\* C23: a file is open only while its lines are being read: at every point of a
\* run at most one input file is open, it is the file the loop is at, and once the
\* reading is over -- while the file is parsed, windowed and filtered, while an
\* exception of any step travels to the handler, and when the next file is taken --
\* no file is open.
C23_OneFileOpenAndClosed ==
    /\ Cardinality(open_files) <= 1
    /\ open_files # {} => pc = "read" /\ open_files = {<<idx, cur_file>>}
    /\ pc \in {"idle", "loop", "open", "meta", "rows", "window", "filter", "return", "except",
               "handler", "done", "escaped"} => open_files = {}
\* A later file is open after an earlier one failed in filtering and another was
\* read to its end and filed
C23_Witness ==
    /\ pc = "read"
    /\ open_files = {<<idx, cur_file>>}
    /\ idx > 2
    /\ successful >= 1
    /\ \E i \in DOMAIN errlog : errlog[i].run = runs /\ errlog[i].exc = "ZeroDivisionError"

\* C24 as stated: for a trial at 1500 Hz of 1500 x 25 = 37500 samples spanning
\* 0 to 25 s, the raw arrays hold 37500 samples and the trimmed arrays 22501.
C24_Trimmed22501 ==
    synthetic.windowed /\ synthetic.scheme \in {"from zero", "both ends"} =>
        synthetic.rows = 37500 /\ synthetic.trimmed = 22501
\* C24 amended: for a trial at 1500 Hz of 1500 x 25 = 37500 samples that starts
\* at 0 s, the raw arrays hold 37500 samples and the trimmed arrays 22500, the
\* samples from 10 s on; 22501 samples are kept only when the 37500 samples run from
\* 1/1500 s to 25 s, both 10 s and 25 s among them.
C24_Trimmed22500 ==
    synthetic.windowed =>
        /\ synthetic.rows = 37500
        /\ synthetic.scheme \in {"from zero", "both ends"} => synthetic.trimmed = 22500
        /\ synthetic.scheme = "to 25" => synthetic.trimmed = 22501
\* The trial sampled at i / 1500 s from 0 s on has been windowed
C24_Witness ==
    /\ synthetic.windowed
    /\ synthetic.scheme = "from zero"
    /\ synthetic.rows = 1500 * 25
    /\ synthetic.trimmed = 15 * 1500

\* C25: every call of apply_butterworth_filter designs a low-pass filter of order 4
\* whose normalized cutoff Wn is 5 Hz over the Nyquist frequency of the rate it is
\* given (Wn * sampling_rate / 2 = 5, so 5/750 = 1/150 at 1500 Hz) and runs it over
\* the data forward and then backward; a trial with samples in the window is
\* filtered by two calls, the first on its trimmed ML sequence and the second on its
\* trimmed AP sequence, both with the sampling rate read from the trial's own file.
designs_low_pass(c) ==
    /\ c.N = 4 /\ c.btype = "low" /\ ~c.analog
    /\ c.passes = <<"forward", "backward">>
    /\ c.sampling_rate # 0 =>
           /\ c.Wn[1] = "ratio" /\ c.Wn[3] > 0
           /\ c.Wn[2] * c.sampling_rate = c.Wn[3] * 2 * 5
    /\ c.sampling_rate = 1500 => c.Wn = <<"ratio", 5, 750>> \/ c.Wn = <<"ratio", 1, 150>>
C25_ZeroPhaseLowPass ==
    pc \in {"return", "except", "handler"} =>
        /\ \A k \in DOMAIN loc.filter_calls :
               /\ designs_low_pass(loc.filter_calls[k])
               /\ loc.filter_calls[k].sampling_rate = rate_of_cell(meta_cell(cur_file, 2))
               /\ loc.filter_calls[k].data = IF k = 1 THEN loc.ml_trimmed ELSE loc.ap_trimmed
        /\ Len(loc.filter_calls) <= 2
        /\ pc = "return" /\ Len(loc.time_trimmed) > 0 => Len(loc.filter_calls) = 2
\* Two calls filtered the two sequences of a trial recorded at a rate of its own
C25_Witness ==
    /\ pc = "return"
    /\ Len(loc.filter_calls) = 2
    /\ loc.sampling_rate \notin {0, 1500}
    /\ loc.filter_calls[1].data # loc.filter_calls[2].data
    /\ loc.filter_calls[2].Wn[1] = "ratio"
    /\ Len(loc.ml_filtered) > padlen

\* C26: whenever load_matlab_spectra returned data with format 'scipy' or 'h5py',
\* what extract_spectra_data returns for it is a table, never None, and
\* assess_model_fit can take its 'spectra' column.
struct_with_spectra(file) ==
    file.key \in {"results", "results_filtered"} /\ file.group /\ has_field(file.fields, "spectra")
C26_ExtractReturnsTable ==
    fit.pc \in {"close", "index", "fitting", "raised"} /\ fit.format_type \in {"scipy", "h5py"}
    /\ struct_with_spectra(fit.file) =>
        /\ fit.df # None
        /\ "spectra" \in fit.df.columns
        /\ fit.exc = "none"

\* C27: at every point each key of the mapping occurs once and maps to a non-empty
\* list, and every record of the list carries the key as its subject_id -- also
\* when the key is not a valid subject id, such as the empty string.
C27_KeysHoldTheirOwnRecords ==
    \A i \in DOMAIN processed_data :
        /\ \A j \in DOMAIN processed_data : processed_data[j][1] = processed_data[i][1] => j = i
        /\ Len(processed_data[i][2]) > 0
        /\ \A n \in DOMAIN processed_data[i][2] :
               processed_data[i][2][n].subject_id = processed_data[i][1]
\* Two runs filed two records under the empty string
C27_Witness ==
    \E i \in DOMAIN processed_data :
        /\ processed_data[i][1] = <<>>
        /\ Len(processed_data[i][2]) = 2
        /\ processed_data[i][2][2].subject_id = <<>>

\* The records the r-th call filed, with their keys, in the order it filed them
run_records(r) ==
    [n \in DOMAIN SelectSeq(appended, LAMBDA a : a.run = r) |->
        <<SelectSeq(appended, LAMBDA a : a.run = r)[n].key,
          record_of(SelectSeq(appended, LAMBDA a : a.run = r)[n])>>]
\* C28: no call resets the mapping: every list a call found is still there, in
\* place and in order, with the call's records after it.  Over unchanged directories
\* every call files the same records as the first, so the n-th call leaves n copies
\* of a single run's records after what the processor held before; and a call that
\* discovers no file returns the mapping exactly as the earlier runs left it.
C28_RunsAccumulate ==
    /\ Len(at_call) <= Len(processed_data)
    /\ \A i \in DOMAIN at_call :
           /\ processed_data[i][1] = at_call[i][1]
           /\ IsPrefix(at_call[i][2], processed_data[i][2])
    /\ pc = "done" /\ runs >= 1 =>
           /\ \A r \in 1..runs : run_records(r) = run_records(1)
           /\ dict_count(processed_data) = dict_count(at_call) + Len(run_records(1))
           /\ all_files = <<>> => processed_data = at_call
\* The second call has returned: a list that held one record of an earlier batch
\* now holds two copies of the two records a run files under its key
C28_Witness ==
    /\ pc = "done" /\ runs = 2
    /\ \E i \in DOMAIN processed_data :
           /\ Len(processed_data[i][2]) = 5
           /\ processed_data[i][2][2] = processed_data[i][2][4]
           /\ processed_data[i][2][3] = processed_data[i][2][5]
           /\ processed_data[i][2][2] # processed_data[i][2][3]
           /\ Len(at_call[i][2]) = 3
\* The second call found no file and returned what the processor held
C28_NoFilesWitness ==
    /\ pc = "done" /\ runs = 2 /\ all_files = <<>>
    /\ processed_data # <<>> /\ processed_data = at_call
    /\ <<"No CSV files found">> \in warned

\* C29: a sample whose time is NaN is counted in the raw arrays and is never among
\* the trimmed ones, while a sample with a time in [10, 30] is kept whether its ML
\* or AP value is a number or NaN: what is handed to the filter is every ML value and
\* every AP value of the window, the NaN among them.  So a record never has more
\* trimmed than raw samples, and neither does its summary row.
nan_places(arr) == {i \in DOMAIN arr : arr[i] = NaN}
C29_NaNTimeDroppedNaNValueKept ==
    /\ pc = "return" =>
           /\ nan_places(loc.time_trimmed) = {}
           /\ Len(loc.time_trimmed) + Cardinality(nan_places(loc.time_data)) <= Len(loc.time_data)
           /\ Len(loc.ml_trimmed) = Cardinality(positions_10_30(loc.time_data))
           /\ Cardinality(nan_places(loc.ml_trimmed))
                  = Cardinality(nan_places(loc.ml_data) \cap positions_10_30(loc.time_data))
           /\ Cardinality(nan_places(loc.ap_trimmed))
                  = Cardinality(nan_places(loc.ap_data) \cap positions_10_30(loc.time_data))
           /\ Len(loc.time_trimmed) > 0 =>
                  /\ Len(loc.filter_calls) = 2
                  /\ loc.filter_calls[1].data = loc.ml_trimmed
                  /\ loc.filter_calls[2].data = loc.ap_trimmed
    /\ \A a \in Appends :
           /\ nan_places(record_of(a).time_trimmed) = {}
           /\ Len(record_of(a).time_trimmed) + Cardinality(nan_places(record_of(a).time_raw))
                  <= Len(record_of(a).time_raw)
           /\ summary_row(record_of(a)).Trimmed_Samples <= summary_row(record_of(a)).Total_Samples
\* A record with a NaN time among its raw samples, whose window kept a sample with
\* a NaN ML value and one with a NaN AP value, all of them handed to the filter
C29_Witness ==
    /\ pc = "return"
    /\ nan_places(loc.time_data) # {}
    /\ nan_places(loc.ml_trimmed) # {}
    /\ nan_places(loc.ap_trimmed) # {}
    /\ nan_places(loc.filter_calls[1].data) # {}
    /\ Len(loc.time_trimmed) < Len(loc.time_data)
    /\ Len(loc.ml_filtered) = Len(loc.time_trimmed)

\* C30: the while loop that unwraps a nested (1, 1) spectra array takes at most 6
\* turns for every entry, however deep the nesting, and the script comes to the end
\* of the struct array; an entry is appended for exactly the elements whose spectra,
\* unwrapped by at most 6 levels, flatten to 251 points, so every appended entry has
\* 251 points and an element of any other length is skipped.
size_as_read(x) == IF x.depth > 6 \/ (x.depth = 6 /\ x.shape = <<1, 1>>) THEN 1 ELSE product(x.shape)
C30_Safe ==
    /\ unwrap.unwrap_count <= 6
    /\ unwrap.pc = "while" => unwrap.unwrap_count <= 5
    /\ \A n \in DOMAIN unwrap.new_data :
           /\ unwrap.new_data[n].points = 251
           /\ size_as_read(unwrap.results[unwrap.new_data[n].i + 1]) = 251
    /\ Len(unwrap.new_data)
           = Cardinality({k \in 1..unwrap.i : size_as_read(unwrap.results[k]) = 251})
C30_UnwrapTerminates == []C30_Safe /\ <>(unwrap.pc = "end" /\ unwrap.i = Len(unwrap.results))
\* The script is through an array of two elements: one nested deeper than the loop
\* unwraps was skipped, the other was unwrapped and appended
C30_Witness ==
    /\ unwrap.pc = "end"
    /\ Len(unwrap.results) = 2
    /\ unwrap.results[1].depth > 6 /\ unwrap.results[1].shape = <<251>>
    /\ unwrap.results[2].depth = 6
    /\ unwrap.new_data = <<[i |-> 1, points |-> 251]>>

====
